---------------------------- MODULE Spec2Model ----------------------------
(***************************************************************************)
(* Model of the life-lang front end: the lexer (src/src/lexer.rs and       *)
(* src/src/lexer/get_tokens_utils.rs), the recursive-descent parser        *)
(* (src/src/parser.rs and src/src/parser/dp.rs), the diagnostic renderer   *)
(* (src/src/lexer/diags.rs) and the visitors of the ast                    *)
(* (src/src/ast/visitor.rs).                                               *)
(*                                                                         *)
(* Indices (UcIdx, TokenIdx, AstNodeIdx) keep the 0-based values of the    *)
(* Rust code; a sequence s is read at index i as s[i + 1].  An Option is a *)
(* sequence of length at most one: <<>> is None and <<x>> is Some(x).      *)
(* A checked subtraction that would panic yields a negative index.         *)
(***************************************************************************)
EXTENDS Integers, Sequences, FiniteSets, TLC

VARIABLES
    src,             \* CompilationUnit.ucs: the grapheme clusters of the normalized text
    uc_idx,          \* get_tokens: the grapheme index of the lexing loop
    tokens,          \* Tokens: the token vector
    pc,              \* position: "lex", "parse", "module", "done", "panic", "diverged",
                     \* "diags" (in get_diags), "rendered", "visited"
    nodes,           \* Ast.nodes: the node arena
    next_token_idx,  \* parse_module: the loop's token index
    module_stmts,    \* parse_module: module_node.statements_node_indices
    error,           \* parse_module: the local error being collected
    ast_error,       \* Ast.error: Option<ParseError>
    visited,         \* Ast::accept: Option of the value the visitor returned
    ctx_start_byte_idx,  \* get_diags: Option<ByteIdx>, the context still to render
    error_byte_span,     \* get_diags: Option<ByteSpan>, the error still to render
    diags,           \* get_diags: the frames pushed so far
    diag_call        \* the caller of get_diags: Option of its name and token arguments

vars == <<src, uc_idx, tokens, pc, nodes, next_token_idx, module_stmts, error, ast_error,
          visited, ctx_start_byte_idx, error_byte_span, diags, diag_call>>

\* the variables of the visitors and of the renderer
afterVars == <<visited, ctx_start_byte_idx, error_byte_span, diags, diag_call>>

---------------------------------------------------------------------------
(* Bounds of the model. *)

MaxLexLen == 4
MaxParseLen == 5
MaxTriviaLen == 5
MaxOps == 2
MaxNegLen == 6
MaxDiagLen == 4
MaxEvalOps == 2
MaxPrintLen == 4
MaxEscapeLen == 4
MaxNameLen == 3
MaxDefLen == 4

---------------------------------------------------------------------------
(* Graphemes.  A grapheme cluster is a string; the ones longer than one    *)
(* byte are named.                                                         *)

LF == "\n"
CR == "\r"
CRLF == "\r\n"
DQ == "\""
BS == "\\"
SP == " "
MB == "U+5E38"
\* an underscore and the combining accent after it: one grapheme cluster of three bytes
UM == "_U+0301"
NoStr == "<none>"

MultiByteGraphemes == {CRLF, MB, UM}

AsciiDigits == {"0", "1", "2", "3", "4", "5", "6", "7", "8", "9"}
AsciiLower == {"a", "b", "c", "d", "e", "f", "g", "h", "i", "j", "k", "l", "m",
               "n", "o", "p", "q", "r", "s", "t", "u", "v", "w", "x", "y", "z"}
AsciiUpper == {"A", "B", "C", "D", "E", "F", "G", "H", "I", "J", "K", "L", "M",
               "N", "O", "P", "Q", "R", "S", "T", "U", "V", "W", "X", "Y", "Z"}
AsciiAlpha == AsciiLower \cup AsciiUpper
AsciiAlnum == AsciiAlpha \cup AsciiDigits
AsciiHexDigits == AsciiDigits \cup {"a", "b", "c", "d", "e", "f", "A", "B", "C", "D", "E", "F"}

\* s.len(): the byte length of a grapheme
ByteLen(s) == IF s = CRLF THEN 2 ELSE IF s \in {MB, UM} THEN 3 ELSE 1

RECURSIVE Concat(_)
Concat(ss) == IF ss = <<>> THEN <<>> ELSE Head(ss) \o Concat(Tail(ss))

\* all sequences of at most n elements of S
SeqsUpTo(S, n) == UNION {[1..k -> S] : k \in 0..n}

\* str::replace("\r\n", "\n"): one pass from the left, matches do not overlap
RECURSIVE normalize_new_lines(_)
normalize_new_lines(chars) ==
    IF chars = <<>> THEN <<>>
    ELSE IF Len(chars) >= 2 /\ chars[1] = CR /\ chars[2] = LF
         THEN <<LF>> \o normalize_new_lines(SubSeq(chars, 3, Len(chars)))
         ELSE <<Head(chars)>> \o normalize_new_lines(Tail(chars))

\* grapheme_indices(true): of the characters of the model only CR LF form a cluster
RECURSIVE UcContentFrom(_)
UcContentFrom(chars) ==
    IF chars = <<>> THEN <<>>
    ELSE IF Len(chars) >= 2 /\ chars[1] = CR /\ chars[2] = LF
         THEN <<CRLF>> \o UcContentFrom(SubSeq(chars, 3, Len(chars)))
         ELSE <<Head(chars)>> \o UcContentFrom(Tail(chars))

\* CompilationUnit::from_string
from_string(input) == UcContentFrom(normalize_new_lines(input))

\* CompilationUnit::get_str(UcIdx)
GetStr(s, i) == IF i >= 0 /\ i < Len(s) THEN s[i + 1] ELSE NoStr

\* CompilationUnit::get_str((UcIdx, UcIdx)): the graphemes of a span
GetSpanStr(s, a, b) == SubSeq(s, a + 1, b + 1)

---------------------------------------------------------------------------
(* Tokens. *)

NoMsg == [text |-> "", arg |-> <<>>]

Token(kind, start, end) ==
    [kind |-> kind, start |-> start, end |-> end, content |-> <<>>, msg |-> NoMsg, fake |-> <<>>]

\* Tokens::push
Push(toks, kind, start, end) == Append(toks, Token(kind, start, end))

PushContent(toks, kind, start, end, content) ==
    Append(toks, [Token(kind, start, end) EXCEPT !.content = content])

PushInvalid_bad(toks, start, end, msg) ==
    Append(toks, [Token("Invalid", start, end) EXCEPT !.msg = msg, !.fake = <<Len(toks)>>])

\* Invalid { msg, error_fake_token_idx: TokenIdx::new(tokens.len() - 1) }
PushInvalid(toks, start, end, msg) ==
    Append(toks, [Token("Invalid", start, end) EXCEPT !.msg = msg, !.fake = <<Len(toks) - 1>>])

\* the closures handed to take_while
TakeWhilePred(p, s) ==
    CASE p = "multi_byte" -> ByteLen(s) # 1
      [] p = "not_new_line" -> s # LF
      [] p = "ascii_digit" -> s \in AsciiDigits
      [] p = "space" -> s = SP
      [] p = "alnum" -> s \in AsciiAlnum
      [] p = "alnum_or_underscore" -> s \in AsciiAlnum \/ s \in {"_", UM}  \* starts_with('_')

RECURSIVE take_while(_, _, _)
\* take_while: the index of the last grapheme of the run that starts at start
take_while(s, start, p) ==
    IF GetStr(s, start) # NoStr /\ TakeWhilePred(p, GetStr(s, start))
    THEN take_while(s, start + 1, p)
    ELSE start - 1

RECURSIVE find_string_end_from(_, _, _)
find_string_end_from(s, start, possible_new_line) ==
    LET g == GetStr(s, start) IN
    IF g = NoStr THEN possible_new_line
    ELSE IF g = LF THEN find_string_end_from(s, start + 1, <<start>>)
    ELSE IF g = DQ /\ start - 1 < 0 THEN <<start - 1>>
    ELSE IF g = DQ /\ GetStr(s, start - 1) # BS THEN <<start>>
    ELSE find_string_end_from(s, start + 1, possible_new_line)

find_string_end(s, start) == find_string_end_from(s, start, <<>>)

HexDigitValue(g) ==
    CASE g \in AsciiDigits -> CHOOSE n \in 0..9 : <<"0", "1", "2", "3", "4", "5", "6", "7", "8", "9">>[n + 1] = g
      [] g \in {"a", "A"} -> 10
      [] g \in {"b", "B"} -> 11
      [] g \in {"c", "C"} -> 12
      [] g \in {"d", "D"} -> 13
      [] g \in {"e", "E"} -> 14
      [] g \in {"f", "F"} -> 15

\* u32::from_str_radix(s, 16), saturated just above the largest scalar value: any
\* larger value is rejected by from_str_radix or by char::from_u32 alike
RECURSIVE HexValue(_, _)
HexValue(digits, acc) ==
    IF digits = <<>> THEN acc
    ELSE LET v == acc * 16 + HexDigitValue(Head(digits)) IN
         HexValue(Tail(digits), IF v > 1114112 THEN 1114112 ELSE v)

\* char::from_u32
IsUnicodeScalar(n) == n <= 1114111 /\ ~(n >= 55296 /\ n <= 57343)

TakeOk(idx, content) ==
    [ok |-> TRUE, idx |-> idx, content |-> content,
     error_uc_idx |-> 0, msg |-> NoMsg, next_uc_idx |-> 0]

\* TakeStringError
TakeErr(error_uc_idx, msg, next_uc_idx) ==
    [ok |-> FALSE, idx |-> 0, content |-> <<>>,
     error_uc_idx |-> error_uc_idx, msg |-> msg, next_uc_idx |-> next_uc_idx]

RECURSIVE take_hex(_, _)
\* the "take hex numbers" loop: the index of '}' or of the end of input, or the
\* index of the first offending grapheme (bad = TRUE)
take_hex(s, i) ==
    LET g == GetStr(s, i) IN
    IF g = NoStr \/ g = "}" THEN [idx |-> i, bad |-> FALSE]
    ELSE IF g \notin AsciiHexDigits THEN [idx |-> i, bad |-> TRUE]
    ELSE take_hex(s, i + 1)

take_unicode_bad(s, after_rquote_uc_idx, lbrace_uc_idx) ==
    IF GetStr(s, lbrace_uc_idx) # "{"
    THEN TakeErr(lbrace_uc_idx,
                 [text |-> "unicode should be in the format of \\u{...}", arg |-> <<>>],
                 after_rquote_uc_idx)
    ELSE
    LET h == take_hex(s, lbrace_uc_idx + 1)
        rbrace_uc_idx == h.idx
        digits == GetSpanStr(s, lbrace_uc_idx + 1, rbrace_uc_idx - 1)
        n == HexValue(digits, 0)
    IN  IF h.bad
        THEN TakeErr(h.idx,
                     [text |-> "only hex numbers are allowed in unicode sequence, '{}' is not allowed",
                      arg |-> <<GetStr(s, h.idx)>>],
                     after_rquote_uc_idx)
        ELSE IF rbrace_uc_idx = lbrace_uc_idx + 1
        THEN TakeErr(rbrace_uc_idx,
                     [text |-> "unicode should be in the format of \\u{...}, cannot be empty between '{}'",
                      arg |-> <<>>],
                     after_rquote_uc_idx)
        ELSE IF ~IsUnicodeScalar(n)
        THEN TakeErr(lbrace_uc_idx,
                     [text |-> "'{}' is not a valid unicode code point", arg |-> digits],
                     after_rquote_uc_idx)
        ELSE TakeOk(rbrace_uc_idx, <<<<"u", <<n>>>>>>)

take_unicode(s, after_rquote_uc_idx, lbrace_uc_idx) ==
    IF GetStr(s, lbrace_uc_idx) # "{"
    THEN TakeErr(lbrace_uc_idx,
                 [text |-> "unicode should be in the format of \\u{...}", arg |-> <<>>],
                 after_rquote_uc_idx)
    ELSE
    LET h == take_hex(s, lbrace_uc_idx + 1)
        rbrace_uc_idx == h.idx
        digits == GetSpanStr(s, lbrace_uc_idx + 1, rbrace_uc_idx - 1)
        n == HexValue(digits, 0)
    IN  IF h.bad
        THEN TakeErr(h.idx,
                     [text |-> "only hex numbers are allowed in unicode sequence, '{}' is not allowed",
                      arg |-> <<GetStr(s, h.idx)>>],
                     after_rquote_uc_idx)
        ELSE IF rbrace_uc_idx = lbrace_uc_idx + 1
        THEN TakeErr(rbrace_uc_idx,
                     [text |-> "unicode should be in the format of \\u{...}, cannot be empty between '{}'",
                      arg |-> <<>>],
                     after_rquote_uc_idx)
        ELSE IF ~IsUnicodeScalar(n)
        THEN TakeErr(lbrace_uc_idx + 1,
                     [text |-> "'{}' is not a valid unicode code point", arg |-> digits],
                     after_rquote_uc_idx)
        ELSE TakeOk(rbrace_uc_idx, <<<<"u", <<n>>>>>>)

\* the escaped_chars table of take_string
escaped_chars ==
    [g \in {BS, DQ, "n", "r", "t", "0"} |->
        CASE g = BS -> BS
          [] g = DQ -> DQ
          [] g = "n" -> LF
          [] g = "r" -> CR
          [] g = "t" -> "\t"
          [] g = "0" -> "NUL"]

Lit(g) == <<"c", <<g>>>>

RECURSIVE take_string_loop(_, _, _, _, _, _)
take_string_loop(s, start, in_escape, content, after_rquote_uc_idx, lquote_uc_idx) ==
    LET g == GetStr(s, start) IN
    IF g = NoStr
    THEN TakeErr(lquote_uc_idx, [text |-> "unterminated string literal", arg |-> <<>>], Len(s))
    ELSE IF in_escape
    THEN IF g = "u"
         THEN LET r == take_unicode(s, after_rquote_uc_idx, start + 1) IN
              IF r.ok
              THEN take_string_loop(s, r.idx + 1, FALSE, content \o r.content,
                                    after_rquote_uc_idx, lquote_uc_idx)
              ELSE r
         ELSE IF g \in DOMAIN escaped_chars
         THEN take_string_loop(s, start + 1, FALSE, Append(content, Lit(escaped_chars[g])),
                               after_rquote_uc_idx, lquote_uc_idx)
         ELSE TakeErr(start, [text |-> "invalid escape char '{}'", arg |-> <<g>>],
                      after_rquote_uc_idx)
    ELSE IF g = DQ THEN TakeOk(start, content)
    ELSE IF g = BS
    THEN take_string_loop(s, start + 1, TRUE, content, after_rquote_uc_idx, lquote_uc_idx)
    ELSE take_string_loop(s, start + 1, FALSE, Append(content, Lit(g)),
                          after_rquote_uc_idx, lquote_uc_idx)

take_string(s, start) ==
    LET lquote_uc_idx == start - 1
        rquote == find_string_end(s, start)
    IN  IF rquote = <<>>
        THEN TakeErr(lquote_uc_idx, [text |-> "unterminated string literal", arg |-> <<>>], Len(s))
        ELSE take_string_loop(s, start, FALSE, <<>>, rquote[1] + 1, lquote_uc_idx)

get_single_char_token_kind(c) ==
    CASE c = "+" -> <<"Plus">>
      [] c = "-" -> <<"Minus">>
      [] c = "*" -> <<"Star">>
      [] c = "/" -> <<"Slash">>
      [] c = "%" -> <<"Percent">>
      [] c = "(" -> <<"LParen">>
      [] c = ")" -> <<"RParen">>
      [] c = ";" -> <<"SemiColon">>
      [] c = "{" -> <<"LCurlyBrace">>
      [] c = "}" -> <<"RCurlyBrace">>
      [] c = ":" -> <<"Colon">>
      [] OTHER -> <<>>

get_keyword(lexeme) ==
    CASE lexeme = <<"l", "e", "t">> -> <<"KwLet">>
      [] lexeme = <<"v", "a", "r">> -> <<"KwVar">>
      [] lexeme = <<"i", "f">> -> <<"KwIf">>
      [] lexeme = <<"e", "l", "s", "e">> -> <<"KwElse">>
      [] lexeme = <<"r", "e", "t", "u", "r", "n">> -> <<"KwReturn">>
      [] OTHER -> <<>>

\* the result of one helper of the lexing loop: the token vector and the next index
LexRes(toks, next) == [tokens |-> toks, next |-> next]

try_new_line(s, toks, i) == LexRes(Push(toks, "NewLine", i, i), i + 1)

try_multi_byte_char(s, toks, i) ==
    LET new_uc_idx == take_while(s, i + 1, "multi_byte")
        msg == [text |-> "multi-char unicode like '{}' only supported in strings and comments",
                arg |-> <<GetStr(s, i)>>]
    IN  LexRes(PushInvalid(Push(toks, "FakeTokenForInvalid", i, new_uc_idx), i, new_uc_idx, msg),
               new_uc_idx + 1)

try_single_byte_token(s, toks, i) ==
    LexRes(Push(toks, get_single_char_token_kind(GetStr(s, i))[1], i, i), i + 1)

try_string_bad(s, toks, i) ==
    LET r == take_string(s, i + 1) IN
    IF r.ok
    THEN LexRes(PushContent(toks, "StringLiteral", i, r.idx, r.content), r.idx + 1)
    ELSE LexRes(PushInvalid(Push(toks, "FakeTokenForInvalid", r.error_uc_idx, r.error_uc_idx),
                            i, r.error_uc_idx, r.msg),
                i)

try_string(s, toks, i) ==
    LET r == take_string(s, i + 1) IN
    IF r.ok
    THEN LexRes(PushContent(toks, "StringLiteral", i, r.idx, r.content), r.idx + 1)
    ELSE LexRes(PushInvalid(Push(toks, "FakeTokenForInvalid", r.error_uc_idx, r.error_uc_idx),
                            i, r.error_uc_idx, r.msg),
                r.next_uc_idx)

\* must_be_gt_or_gteq, must_be_lt_or_lteq, must_be_eq_or_assign, must_be_not_eq_or_bitwise_not
must_be_one_or_two(s, toks, i, two, one) ==
    IF GetStr(s, i + 1) = "="
    THEN LexRes(Push(toks, two, i, i + 1), i + 2)
    ELSE LexRes(Push(toks, one, i, i), i + 1)

must_be_comment(s, toks, i) ==
    LET new_uc_idx == take_while(s, i + 1, "not_new_line") IN
    LexRes(Push(toks, "Comment", i, new_uc_idx), new_uc_idx + 1)

must_be_single_zero(s, toks, i) ==
    LET new_uc_idx == take_while(s, i + 1, "ascii_digit") IN
    IF new_uc_idx = i
    THEN LexRes(Push(toks, "I64", i, new_uc_idx), new_uc_idx + 1)
    ELSE LexRes(PushInvalid(Push(toks, "FakeTokenForInvalid", i, new_uc_idx), i, new_uc_idx,
                            [text |-> "leading zero is not allowed", arg |-> <<>>]),
                new_uc_idx + 1)

must_be_integer_bad(s, toks, i) ==
    LET new_uc_idx == take_while(s, i + 1, "ascii_digit") IN
    LexRes(Push(toks, "I64", i, i), new_uc_idx + 1)

must_be_integer(s, toks, i) ==
    LET new_uc_idx == take_while(s, i + 1, "ascii_digit") IN
    LexRes(Push(toks, "I64", i, new_uc_idx), new_uc_idx + 1)

\* Spaces { count }: the count is the width of the span
must_be_spaces(s, toks, i) ==
    LET new_uc_idx == take_while(s, i + 1, "space") IN
    LexRes(Push(toks, "Spaces", i, new_uc_idx), new_uc_idx + 1)

must_be_name(s, toks, i) ==
    LET new_uc_idx == IF GetStr(s, i) = "_"
                      THEN take_while(s, i + 1, "alnum")
                      ELSE take_while(s, i + 1, "alnum_or_underscore")
        lexeme == GetSpanStr(s, i, new_uc_idx)
        kw == get_keyword(lexeme)
    IN  IF kw # <<>>
        THEN LexRes(Push(toks, kw[1], i, new_uc_idx), new_uc_idx + 1)
        ELSE LexRes(PushContent(toks, "Identifier", i, new_uc_idx, lexeme), new_uc_idx + 1)

\* the first characters try_multi_byte_tokens dispatches on
MultiByteTokenStarts == AsciiDigits \cup {SP, "#", "_", ">", "<", "=", "!"} \cup AsciiAlpha

try_multi_byte_tokens(s, toks, i) ==
    LET c == GetStr(s, i) IN
    CASE c = "0" -> must_be_single_zero(s, toks, i)
      [] c \in AsciiDigits \ {"0"} -> must_be_integer(s, toks, i)
      [] c = SP -> must_be_spaces(s, toks, i)
      [] c = "#" -> must_be_comment(s, toks, i)
      [] c \in AsciiAlpha \cup {"_"} -> must_be_name(s, toks, i)
      [] c = ">" -> must_be_one_or_two(s, toks, i, "Ge", "Gt")
      [] c = "<" -> must_be_one_or_two(s, toks, i, "Le", "Lt")
      [] c = "=" -> must_be_one_or_two(s, toks, i, "EqEq", "Eq")
      [] c = "!" -> must_be_one_or_two(s, toks, i, "Ne", "Not")

must_be_invalid_stuff(s, toks, i) ==
    LexRes(PushInvalid(Push(toks, "FakeTokenForInvalid", i, i), i, i,
                       [text |-> "unsupported '{}'", arg |-> <<GetStr(s, i)>>]),
           i + 1)

\* which branch of the loop of get_tokens takes the grapheme at index i
LexBranch(s, i) ==
    LET g == GetStr(s, i) IN
    IF g = NoStr THEN "end"
    ELSE IF ByteLen(g) # 1 THEN "multi_byte_char"
    ELSE IF g = LF THEN "new_line"
    ELSE IF g \in MultiByteTokenStarts THEN "multi_byte_tokens"
    ELSE IF g = DQ THEN "string"
    ELSE IF get_single_char_token_kind(g) # <<>> THEN "single_byte_token"
    ELSE "invalid_stuff"

\* one iteration of the loop of get_tokens
LexStep(s, toks, i) ==
    LET b == LexBranch(s, i) IN
    CASE b = "multi_byte_char" -> try_multi_byte_char(s, toks, i)
      [] b = "new_line" -> try_new_line(s, toks, i)
      [] b = "multi_byte_tokens" -> try_multi_byte_tokens(s, toks, i)
      [] b = "string" -> try_string(s, toks, i)
      [] b = "single_byte_token" -> try_single_byte_token(s, toks, i)
      [] b = "invalid_stuff" -> must_be_invalid_stuff(s, toks, i)

\* a checked subtraction or an unwrap of the iteration panicked
LexPanicked(r) ==
    \/ r.next < 0
    \/ \E k \in 1..Len(r.tokens) :
          \/ r.tokens[k].start < 0
          \/ r.tokens[k].end < 0
          \/ (r.tokens[k].fake # <<>> /\ r.tokens[k].fake[1] < 0)

\* CompilationUnit::get_tokens, run to the end (Ast::new)
RECURSIVE get_tokens_from(_, _, _)
get_tokens_from(s, toks, i) ==
    IF LexBranch(s, i) = "end" THEN toks
    ELSE LET r == LexStep(s, toks, i) IN
         IF r.next > i THEN get_tokens_from(s, r.tokens, r.next) ELSE r.tokens

get_tokens(s) == get_tokens_from(s, <<>>, 0)

---------------------------------------------------------------------------
(* The lexer as a state machine: one action per branch of the loop of      *)
(* get_tokens.                                                             *)

LexFragments ==
    {<<DQ>>, <<BS>>, <<"u">>, <<BS, "u", "{">>, <<BS, BS, DQ>>, <<"}">>, <<"4">>, <<LF>>, <<MB>>}

LexInputs == {Concat(fs) : fs \in SeqsUpTo(LexFragments, MaxLexLen)}

\* the state before the first iteration of the loop of get_tokens
LexStart(inputs) ==
    /\ src \in {from_string(input) : input \in inputs}
    /\ uc_idx = 0
    /\ tokens = <<>>
    /\ pc = "lex"
    /\ nodes = <<>>
    /\ next_token_idx = 0
    /\ module_stmts = <<>>
    /\ error = [kind |-> "Empty"]
    /\ ast_error = <<>>
    /\ visited = <<>>
    /\ ctx_start_byte_idx = <<>>
    /\ error_byte_span = <<>>
    /\ diags = <<>>
    /\ diag_call = <<>>

InitLex == LexStart(LexInputs)

LexIteration(branch) ==
    /\ pc = "lex"
    /\ LexBranch(src, uc_idx) = branch
    /\ LET r == LexStep(src, tokens, uc_idx) IN
        /\ tokens' = r.tokens
        /\ uc_idx' = r.next
        /\ pc' = IF LexPanicked(r) THEN "panic" ELSE "lex"
    /\ UNCHANGED <<src, nodes, next_token_idx, module_stmts, error, ast_error, afterVars>>

LexMultiByteChar == LexIteration("multi_byte_char")
LexNewLine == LexIteration("new_line")
LexMultiByteTokens == LexIteration("multi_byte_tokens")
LexString == LexIteration("string")
LexSingleByteToken == LexIteration("single_byte_token")
LexInvalidStuff == LexIteration("invalid_stuff")

\* get_str(uc_idx) is None: the loop ends and get_tokens returns
LexDone ==
    /\ pc = "lex"
    /\ LexBranch(src, uc_idx) = "end"
    /\ pc' = "done"
    /\ UNCHANGED <<src, uc_idx, tokens, nodes, next_token_idx, module_stmts, error, ast_error, afterVars>>

NextLex ==
    \/ LexMultiByteChar
    \/ LexNewLine
    \/ LexMultiByteTokens
    \/ LexString
    \/ LexSingleByteToken
    \/ LexInvalidStuff
    \/ LexDone

SpecLex == InitLex /\ [][NextLex]_vars

\* string literals that start with a backslash: what follows it, and what follows the
\* literal
EscapeFragments ==
    {<<"u">>, <<"{">>, <<"}">>, <<"4">>, <<"d", "8", "0", "0">>,
     <<"1", "1", "0", "0", "0", "0">>, <<"q">>, <<BS>>, <<"n">>}

EscapeTails == {<<>>, <<DQ>>, <<DQ, LF, MB, "}", "^", "4">>}

EscapeInputs ==
    {<<DQ, BS>> \o Concat(fs) \o tail :
        fs \in SeqsUpTo(EscapeFragments, MaxEscapeLen), tail \in EscapeTails}

InitEscape == LexStart(EscapeInputs)

SpecEscape == InitEscape /\ [][NextLex]_vars

\* names, keywords and what may stand between them
NameFragments ==
    {<<"l", "e", "t">>, <<"v", "a", "r">>, <<"i", "f">>, <<"e", "l", "s", "e">>,
     <<"r", "e", "t", "u", "r", "n">>, <<"_">>, <<"a">>, <<"1">>, <<UM>>,
     <<SP>>, <<LF>>, <<DQ>>, <<"^">>, <<";">>}

NameInputs == {Concat(fs) : fs \in SeqsUpTo(NameFragments, MaxNameLen)}

InitName == LexStart(NameInputs)

SpecName == InitName /\ [][NextLex]_vars

---------------------------------------------------------------------------
(* Parse errors (src/src/parser.rs). *)

Empty == [kind |-> "Empty"]

\* ParseError::new_single_error
new_single_error(leaf) == [kind |-> "SingleParseError", e |-> leaf]

Context(msg) == [t |-> "Context", msg |-> msg]
UnexpectedEof(msg, ctx_token_idx) ==
    [t |-> "UnexpectedEof", msg |-> msg, ctx_token_idx |-> ctx_token_idx]
UnexpectedToken(msg, ctx_start_token_idx, error_token_idx) ==
    [t |-> "UnexpectedToken", msg |-> msg,
     ctx_start_token_idx |-> ctx_start_token_idx, error_token_idx |-> error_token_idx]
MismatchedParentheses(lparen, error_token_idx) ==
    [t |-> "MismatchedParentheses", lparen |-> lparen, error_token_idx |-> error_token_idx]
LexErrors(errors) == [t |-> "LexErrors", errors |-> errors]

\* the panic of add_error_context on an empty error
PanicError == [kind |-> "Panic"]

add_error_context_bad(e, msg) ==
    LET context == new_single_error(Context(msg)) IN
    IF e.kind = "ErrorWithContext"
    THEN [kind |-> "ErrorWithContext", errors |-> <<e.errors[1], context>> \o Tail(e.errors)]
    ELSE IF e.kind = "Empty" \/ e.kind = "Panic" THEN PanicError
    ELSE [kind |-> "ErrorWithContext", errors |-> <<e, context>>]

\* ParseError::add_error_context
add_error_context(e, msg) ==
    LET context == new_single_error(Context(msg)) IN
    IF e.kind = "ErrorWithContext"
    THEN [kind |-> "ErrorWithContext", errors |-> Append(e.errors, context)]
    ELSE IF e.kind = "Empty" \/ e.kind = "Panic" THEN PanicError
    ELSE [kind |-> "ErrorWithContext", errors |-> <<e, context>>]

\* ParseError::add_new_error
add_new_error(self, e) ==
    IF self.kind = "MutilParseError"
    THEN [kind |-> "MutilParseError", errors |-> Append(self.errors, e)]
    ELSE IF self.kind = "Empty" THEN e
    ELSE [kind |-> "MutilParseError", errors |-> <<self, e>>]

\* a message of the parser: its text and the token text formatted into it
Msg(text) == [text |-> text, arg |-> <<>>]
MsgOf(text, repr) == [text |-> text, arg |-> <<repr>>]

\* TokenKindRepr::get_string_repr, for the kinds the parser formats into messages
get_string_repr(kind) ==
    CASE kind = "SemiColon" -> ";"
      [] kind = "Plus" -> "+"
      [] kind = "Minus" -> "-"
      [] kind = "Star" -> "*"
      [] kind = "Slash" -> "/"
      [] kind = "Percent" -> "%"
      [] kind = "Colon" -> ":"
      [] kind = "Eq" -> "="
      [] kind = "Gt" -> ">"
      [] kind = "Ge" -> ">="
      [] kind = "Lt" -> "<"
      [] kind = "Le" -> "<="
      [] kind = "EqEq" -> "=="
      [] kind = "Ne" -> "!="
      [] kind = "LParen" -> "("
      [] kind = "RParen" -> ")"
      [] kind = "LCurlyBrace" -> "{"
      [] kind = "RCurlyBrace" -> "}"
      [] kind = "KwLet" -> "let"
      [] kind = "KwVar" -> "var"
      [] kind = "KwIf" -> "if"
      [] kind = "KwElse" -> "else"
      [] kind = "KwReturn" -> "return"

---------------------------------------------------------------------------
(* Parse results.  A parsing function reads the token vector and may push  *)
(* nodes, so its result carries the arena as it left it, on every path.    *)

NoNode == [kind |-> "NoNode"]

\* Ok(HappyPath::Node { node, next_token_idx })
PNode(node, next, ns) ==
    [kind |-> "Node", node |-> node, next |-> next, err |-> Empty, nodes |-> ns]
\* Ok(HappyPath::Finished)
PFinished(ns) ==
    [kind |-> "Finished", node |-> NoNode, next |-> 0, err |-> Empty, nodes |-> ns]
\* Err(e)
PErr(e, ns) ==
    IF e.kind = "Panic"
    THEN [kind |-> "Panic", node |-> NoNode, next |-> 0, err |-> Empty, nodes |-> ns]
    ELSE [kind |-> "Err", node |-> NoNode, next |-> 0, err |-> e, nodes |-> ns]
\* a panic!("BUG: ...") of the parser
PPanic(ns) ==
    [kind |-> "Panic", node |-> NoNode, next |-> 0, err |-> Empty, nodes |-> ns]
\* a loop iteration that did not move its token index forward: the loop never ends
PDiverge(ns) ==
    [kind |-> "Diverge", node |-> NoNode, next |-> 0, err |-> Empty, nodes |-> ns]

push_node_bad(ns, node) == <<node>> \o ns

\* Ast::push_node: the index of the pushed node is the length before the push
push_node(ns, node) == Append(ns, node)

\* e.add_error_context(msg) under map_err, and the eof error of the else branch
Wrapped(r, msg, eof_ctx_token_idx) ==
    IF r.kind = "Err" THEN PErr(add_error_context(r.err, msg), r.nodes)
    ELSE IF r.kind = "Finished"
    THEN PErr(new_single_error(UnexpectedEof(msg, eof_ctx_token_idx)), r.nodes)
    ELSE r

KindAt(toks, i) == toks[i + 1].kind

Blank == {"Spaces", "NewLine"}

\* Tokens::find_next_non_blank_token: Some(index) or None
RECURSIVE find_next_non_blank_token(_, _)
find_next_non_blank_token(toks, i) ==
    IF i >= Len(toks) THEN <<>>
    ELSE IF KindAt(toks, i) \notin Blank THEN <<i>>
    ELSE find_next_non_blank_token(toks, i + 1)

\* Tokens::invalid_token_idx
invalid_token_idx(toks) == Len(toks)

RECURSIVE find_next_block_end(_, _, _)
find_next_block_end(toks, i, block_level) ==
    LET f == find_next_non_blank_token(toks, i) IN
    IF f = <<>> THEN <<>>
    ELSE IF KindAt(toks, f[1]) = "LCurlyBrace"
    THEN find_next_block_end(toks, f[1] + 1, block_level + 1)
    ELSE IF KindAt(toks, f[1]) = "RCurlyBrace"
    THEN IF block_level - 1 = 0 THEN f
         ELSE find_next_block_end(toks, f[1] + 1, block_level - 1)
    ELSE find_next_block_end(toks, f[1] + 1, block_level)

RECURSIVE find_next_stat_end(_, _, _)
find_next_stat_end(toks, i, block_level) ==
    LET f == find_next_non_blank_token(toks, i) IN
    IF f = <<>> THEN <<>>
    ELSE IF KindAt(toks, f[1]) = "LCurlyBrace"
    THEN find_next_stat_end(toks, f[1] + 1, block_level + 1)
    ELSE IF KindAt(toks, f[1]) = "RCurlyBrace"
    THEN IF block_level - 1 = 0 THEN f
         ELSE find_next_stat_end(toks, f[1] + 1, block_level - 1)
    ELSE IF KindAt(toks, f[1]) = "SemiColon" /\ block_level = 0 THEN f
    ELSE find_next_stat_end(toks, f[1] + 1, block_level)

find_recovery_idx_bad(toks, next) ==
    LET f == find_next_non_blank_token(toks, next) IN
    IF f = <<>> THEN next ELSE f[1]

RECURSIVE find_recovery_idx(_, _)
\* find_recovery_idx: the token index parsing goes on from after an error
find_recovery_idx(toks, next) ==
    LET f == find_next_non_blank_token(toks, next) IN
    IF f = <<>> THEN next
    ELSE IF KindAt(toks, f[1]) \in {"KwIf", "LCurlyBrace"}
    THEN LET rcurlybrace == find_next_block_end(toks, f[1], 0) IN
         IF rcurlybrace = <<>> THEN invalid_token_idx(toks)
         ELSE LET g == find_next_non_blank_token(toks, rcurlybrace[1] + 1) IN
              IF g = <<>> THEN invalid_token_idx(toks)
              ELSE IF KindAt(toks, g[1]) = "KwElse" THEN find_recovery_idx(toks, g[1])
              ELSE find_recovery_idx(toks, rcurlybrace[1] + 1)
    ELSE LET e == find_next_stat_end(toks, f[1], 0) IN
         IF e = <<>> THEN invalid_token_idx(toks) ELSE e[1] + 1

must_be_i64_after_dash_sign_bad(toks, ns, next, dash_token_idx) ==
    IF next >= Len(toks)
    THEN PErr(new_single_error(
                  UnexpectedEof(MsgOf("expected a number after '{}'", get_string_repr("Minus")),
                                dash_token_idx)), ns)
    ELSE IF KindAt(toks, next) = "I64"
    THEN PNode([kind |-> "Negation", operator |-> dash_token_idx, operand |-> Len(ns)],
               next + 1,
               push_node(ns, [kind |-> "I64", token |-> next]))
    ELSE IF KindAt(toks, next) = "Minus"
    THEN PErr(new_single_error(
                  UnexpectedToken(MsgOf("'{}' cannot be chained", get_string_repr("Minus")),
                                  dash_token_idx, next)), ns)
    ELSE PErr(new_single_error(
                  UnexpectedToken(MsgOf("expected a number after '{}'", get_string_repr("Minus")),
                                  dash_token_idx, next)), ns)

\* must_be_i64_after_dash_sign: either an error or a Negation node
must_be_i64_after_dash_sign(toks, ns, next, dash_token_idx) ==
    LET f == find_next_non_blank_token(toks, next) IN
    IF f = <<>>
    THEN PErr(new_single_error(
                  UnexpectedEof(MsgOf("expected a number after '{}'", get_string_repr("Minus")),
                                dash_token_idx)), ns)
    ELSE IF KindAt(toks, f[1]) = "I64"
    THEN PNode([kind |-> "Negation", operator |-> dash_token_idx, operand |-> Len(ns)],
               f[1] + 1,
               push_node(ns, [kind |-> "I64", token |-> f[1]]))
    ELSE IF KindAt(toks, f[1]) = "Minus"
    THEN PErr(new_single_error(
                  UnexpectedToken(MsgOf("'{}' cannot be chained", get_string_repr("Minus")),
                                  dash_token_idx, f[1])), ns)
    ELSE PErr(new_single_error(
                  UnexpectedToken(MsgOf("expected a number after '{}'", get_string_repr("Minus")),
                                  dash_token_idx, f[1])), ns)

parse_type_from_colon(toks, ns, colon_token_idx) ==
    LET f == find_next_non_blank_token(toks, colon_token_idx + 1) IN
    IF f = <<>>
    THEN PErr(new_single_error(UnexpectedEof(Msg("expected a type expression"),
                                             colon_token_idx + 1)), ns)
    ELSE IF KindAt(toks, f[1]) = "Identifier"
    THEN PNode([kind |-> "AnnoType", token_idx |-> f[1]], f[1] + 1, ns)
    ELSE PErr(new_single_error(UnexpectedToken(Msg("expected a type expression"),
                                               colon_token_idx, f[1])), ns)

must_find_bad(toks, ctx_start_token_idx, next, msg, kind) ==
    LET f == find_next_non_blank_token(toks, next) IN
    IF f = <<>>
    THEN [ok |-> FALSE, idx |-> 0,
          err |-> new_single_error(UnexpectedEof(msg, ctx_start_token_idx))]
    ELSE IF KindAt(toks, f[1]) = kind
    THEN [ok |-> TRUE, idx |-> f[1], err |-> Empty]
    ELSE [ok |-> FALSE, idx |-> 0,
          err |-> new_single_error(UnexpectedToken(msg, f[1], f[1]))]

\* must_find: Ok(token_idx) as [ok |-> TRUE, idx], Err(e) as [ok |-> FALSE, err]
must_find(toks, ctx_start_token_idx, next, msg, kind) ==
    LET f == find_next_non_blank_token(toks, next) IN
    IF f = <<>>
    THEN [ok |-> FALSE, idx |-> 0,
          err |-> new_single_error(UnexpectedEof(msg, ctx_start_token_idx))]
    ELSE IF KindAt(toks, f[1]) = kind
    THEN [ok |-> TRUE, idx |-> f[1], err |-> Empty]
    ELSE [ok |-> FALSE, idx |-> 0,
          err |-> new_single_error(UnexpectedToken(msg, ctx_start_token_idx, f[1]))]

find_start_of_non_empty_statement_bad(toks, i) == find_next_non_blank_token(toks, i)

RECURSIVE find_start_of_non_empty_statement(_, _)
find_start_of_non_empty_statement(toks, i) ==
    LET f == find_next_non_blank_token(toks, i) IN
    IF f = <<>> THEN <<>>
    ELSE IF KindAt(toks, f[1]) \in {"SemiColon", "Comment"}
    THEN find_start_of_non_empty_statement(toks, f[1] + 1)
    ELSE f

get_precedence_bad(kind) ==
    CASE kind \in {"EqEq", "Ne", "Lt", "Le", "Gt", "Ge"} -> <<1>>
      [] kind \in {"Plus", "Minus", "Star", "Slash", "Percent"} -> <<5>>
      [] OTHER -> <<>>

\* get_precedence: Some(precedence) or None; every operator is left-associative
get_precedence(kind) ==
    CASE kind \in {"EqEq", "Ne", "Lt", "Le", "Gt", "Ge"} -> <<1>>
      [] kind \in {"Plus", "Minus"} -> <<5>>
      [] kind \in {"Star", "Slash", "Percent"} -> <<6>>
      [] OTHER -> <<>>

is_end_of_expression(kind) == kind \in {"Eq", "SemiColon", "RParen"}

\* can_shift_with_op: Some((op_token_idx, precedence + 1)) or None
can_shift_with_op(toks, next, min_precedence) ==
    LET f == find_next_non_blank_token(toks, next) IN
    IF f = <<>> THEN <<>>
    ELSE IF is_end_of_expression(KindAt(toks, f[1])) THEN <<>>
    ELSE LET p == get_precedence(KindAt(toks, f[1])) IN
         IF p = <<>> THEN <<>>
         ELSE IF p[1] < min_precedence THEN <<>>
         ELSE <<f[1], p[1] + 1>>

StatementEndMsg == MsgOf("statement must end with '{}'", get_string_repr("SemiColon"))

RECURSIVE parse_call(_, _, _, _, _)
RECURSIVE parse_expression_loop(_, _, _, _, _)
RECURSIVE parse_if_else(_, _, _, _, _, _)
RECURSIVE parse_block_loop(_, _, _, _, _, _)
RECURSIVE parse_definition_from_eq(_, _, _, _, _, _, _)

\* parse_expression: Finished at the end of input, else an expression or an error
parse_expression(toks, ns, next, min_precedence) ==
    LET f == find_next_non_blank_token(toks, next) IN
    IF f = <<>> THEN PFinished(ns)
    ELSE IF KindAt(toks, f[1]) = "KwIf" THEN parse_call("parse_if_expression", toks, ns, f[1], 0)
    ELSE IF KindAt(toks, f[1]) = "KwReturn" THEN parse_call("parse_return_expression", toks, ns, f[1], 0)
    ELSE LET p == parse_call("parse_primary", toks, ns, f[1], 0) IN
         IF p.kind = "Finished" THEN PPanic(p.nodes)
         ELSE IF p.kind # "Node" THEN p
         ELSE parse_expression_loop(toks, p.nodes, p.node, p.next, min_precedence)

\* the while loop of parse_expression: shift while can_shift_with_op allows it
parse_expression_loop(toks, ns, lhs, next, min_precedence) ==
    LET c == can_shift_with_op(toks, next, min_precedence) IN
    IF c = <<>> THEN PNode(lhs, next, ns)
    ELSE LET msg == MsgOf("operator '{}' must be followed by an expression",
                          get_string_repr(KindAt(toks, c[1])))
             r == Wrapped(parse_call("parse_expression", toks, ns, c[1] + 1, c[2]), msg, c[1])
         IN  IF r.kind # "Node" THEN r
             ELSE parse_expression_loop(
                      toks,
                      push_node(push_node(r.nodes, lhs), r.node),
                      [kind |-> "ArithmeticOrLogical", operator |-> c[1],
                       lhs |-> Len(r.nodes), rhs |-> Len(r.nodes) + 1],
                      r.next, min_precedence)

\* parse_primary: never Finished
parse_primary(toks, ns, start) ==
    LET k == KindAt(toks, start) IN
    CASE k = "I64" -> PNode([kind |-> "I64", token |-> start], start + 1, ns)
      [] k = "Identifier" -> PNode([kind |-> "Identifier", token |-> start], start + 1, ns)
      [] k = "Minus" -> must_be_i64_after_dash_sign(toks, ns, start + 1, start)
      [] k = "LParen" -> parse_call("must_be_paren_expression", toks, ns, start, 0)
      [] k = "StringLiteral" ->
            PNode([kind |-> "StringLiteral", token_idx |-> start,
                   content |-> toks[start + 1].content], start + 1, ns)
      [] OTHER -> PErr(new_single_error(
                           UnexpectedToken(Msg("expected an expression"), start, start)), ns)

must_be_paren_expression(toks, ns, lparen_token_idx) ==
    LET r == parse_call("parse_expression", toks, ns, lparen_token_idx + 1, 0) IN
    IF r.kind = "Err"
    THEN PErr(add_error_context(r.err, Msg("not a valid expression between '()'")), r.nodes)
    ELSE IF r.kind = "Finished"
    THEN PErr(new_single_error(UnexpectedEof(Msg("nothing after '('"), lparen_token_idx)),
              r.nodes)
    ELSE IF r.kind # "Node" THEN r
    ELSE LET f == find_next_non_blank_token(toks, r.next) IN
         IF f = <<>>
         THEN PErr(new_single_error(UnexpectedEof(Msg("no matching ')'"), lparen_token_idx)),
                   r.nodes)
         ELSE IF KindAt(toks, f[1]) = "RParen"
         THEN PNode([kind |-> "Grouped", lparen |-> lparen_token_idx,
                     expression_node_idx |-> Len(r.nodes), rparen |-> f[1]],
                    f[1] + 1, push_node(r.nodes, r.node))
         ELSE PErr(new_single_error(MismatchedParentheses(lparen_token_idx, f[1])), r.nodes)

parse_return_expression(toks, ns, return_kw_token_idx) ==
    LET r == Wrapped(parse_call("parse_expression", toks, ns, return_kw_token_idx + 1, 0),
                     Msg("expected an expression after 'return'"), return_kw_token_idx)
    IN  IF r.kind # "Node" THEN r
        ELSE PNode([kind |-> "Return", return_kw |-> return_kw_token_idx,
                    expression_node_idx |-> <<Len(r.nodes)>>],
                   r.next, push_node(r.nodes, r.node))

parse_block_expression_bad(toks, ns, lcurlybrace_token_idx) ==
    parse_block_loop(toks, ns, lcurlybrace_token_idx + 1, lcurlybrace_token_idx + 1, <<>>, Empty)

parse_block_expression(toks, ns, lcurlybrace_token_idx) ==
    parse_block_loop(toks, ns, lcurlybrace_token_idx, lcurlybrace_token_idx + 1, <<>>, Empty)

\* one iteration of the loop of parse_block_expression, and the rest of the loop
parse_block_loop(toks, ns, lcurlybrace_token_idx, next, statements_node_indices, err) ==
    LET f == find_next_non_blank_token(toks, next) IN
    IF f # <<>> /\ KindAt(toks, f[1]) = "RCurlyBrace"
    THEN PNode([kind |-> "Block", lcurlybracket |-> lcurlybrace_token_idx,
                statements_node_indices |-> statements_node_indices, rcurlybracket |-> f[1]],
               f[1] + 1, ns)
    ELSE LET r == parse_call("parse_statement", toks, ns, next, 0) IN
         IF r.kind = "Node"
         THEN IF r.next <= next THEN PDiverge(r.nodes)
              ELSE parse_block_loop(toks, push_node(r.nodes, r.node), lcurlybrace_token_idx,
                                    r.next, Append(statements_node_indices, Len(r.nodes)), err)
         ELSE IF r.kind = "Finished"
         THEN PErr(add_new_error(err, new_single_error(
                       UnexpectedEof(MsgOf("no matching '{}'", get_string_repr("RCurlyBrace")),
                                     lcurlybrace_token_idx))),
                   r.nodes)
         ELSE IF r.kind = "Err"
         THEN IF find_recovery_idx(toks, next) <= next THEN PDiverge(r.nodes)
              ELSE parse_block_loop(toks, r.nodes, lcurlybrace_token_idx,
                                    find_recovery_idx(toks, next), statements_node_indices,
                                    add_new_error(err, r.err))
         ELSE r

parse_if_expression(toks, ns, if_kw_token_idx) ==
    LET r1 == Wrapped(parse_call("parse_expression", toks, ns, if_kw_token_idx + 1, 0),
                      Msg("expected a logical expression after 'if'"), if_kw_token_idx)
    IN  IF r1.kind # "Node" THEN r1
        ELSE LET m == must_find(toks, if_kw_token_idx, r1.next,
                                Msg("expected a '{' after 'if'"), "LCurlyBrace")
             IN  IF ~m.ok THEN PErr(m.err, r1.nodes)
                 ELSE LET r2 == Wrapped(parse_call("parse_block_expression", toks, r1.nodes, m.idx, 0),
                                        Msg("not a valid block"), if_kw_token_idx)
                      IN  IF r2.kind # "Node" THEN r2
                          ELSE parse_if_else(toks, r2.nodes, if_kw_token_idx,
                                             r1.node, r2.node, r2.next)

\* parse_if_expression from "// else" on
parse_if_else(toks, ns, if_kw_token_idx, cond_expr, curly_block, after_curly_block_token_idx) ==
    LET f == find_next_non_blank_token(toks, after_curly_block_token_idx)
        IfNode(base, else_kw, else_block, else_if) ==
            [kind |-> "If", if_kw |-> if_kw_token_idx,
             condition_node_idx |-> base, then_block_node_idx |-> base + 1,
             else_kw |-> else_kw, else_block_node_idx |-> else_block, if_node_idx |-> else_if]
        NothingAfterElse == Msg("expected '{ .. }' or 'if' after 'else'")
    IN
    IF f = <<>> \/ KindAt(toks, f[1]) # "KwElse"
    THEN PNode(IfNode(Len(ns), <<>>, <<>>, <<>>), after_curly_block_token_idx,
               push_node(push_node(ns, cond_expr), curly_block))
    ELSE LET g == find_next_non_blank_token(toks, f[1] + 1) IN
         IF g # <<>> /\ KindAt(toks, g[1]) = "KwIf"
         THEN LET r == Wrapped(parse_call("parse_if_expression", toks, ns, g[1], 0),
                               Msg("not a valid 'else if' expression"), f[1])
              IN  IF r.kind # "Node" THEN r
                  ELSE PNode(IfNode(Len(r.nodes), f, <<>>, <<Len(r.nodes) + 2>>), r.next,
                             push_node(push_node(push_node(r.nodes, cond_expr), curly_block),
                                       r.node))
         ELSE IF g # <<>> /\ KindAt(toks, g[1]) = "LCurlyBrace"
         THEN LET r == Wrapped(parse_call("parse_block_expression", toks, ns, g[1], 0),
                               Msg("not a valid 'else {' expression"), f[1])
              IN  IF r.kind # "Node" THEN r
                  ELSE PNode(IfNode(Len(r.nodes), f, <<Len(r.nodes) + 2>>, <<>>), r.next,
                             push_node(push_node(push_node(r.nodes, cond_expr), curly_block),
                                       r.node))
         ELSE IF g # <<>>
         THEN PErr(new_single_error(UnexpectedToken(NothingAfterElse, f[1], g[1])), ns)
         ELSE PErr(new_single_error(UnexpectedEof(NothingAfterElse, f[1])), ns)

\* parse_statement: Finished when only blanks, ';' and comments are left
parse_statement(toks, ns, next) ==
    LET f == find_start_of_non_empty_statement(toks, next) IN
    IF f = <<>> THEN PFinished(ns)
    ELSE IF KindAt(toks, f[1]) \in {"KwLet", "KwVar"}
    THEN parse_call("parse_definition_statement", toks, ns, f[1], 0)
    ELSE parse_call("try_parse_expression_statement", toks, ns, f[1], 0)

try_parse_expression_statement(toks, ns, next) ==
    LET r == parse_call("parse_expression", toks, ns, next, 0) IN
    IF r.kind = "Err"
    THEN PErr(add_error_context(r.err, Msg("this must be an expression")), r.nodes)
    ELSE IF r.kind = "Finished" THEN PPanic(r.nodes)
    ELSE IF r.kind # "Node" THEN r
    ELSE LET m == must_find(toks, next, r.next, StatementEndMsg, "SemiColon") IN
         IF ~m.ok THEN PErr(m.err, r.nodes)
         ELSE PNode([kind |-> "StatExpression", expression_node_idx |-> Len(r.nodes)],
                    m.idx + 1, push_node(r.nodes, r.node))

\* the first token is 'let' or 'var'
parse_definition_statement(toks, ns, kw_token_idx) ==
    LET r == Wrapped(parse_call("parse_expression", toks, ns, kw_token_idx + 1, 0),
                     MsgOf("expect an expression after '{}' for a definition",
                           get_string_repr(KindAt(toks, kw_token_idx))),
                     kw_token_idx)
    IN  IF r.kind # "Node" THEN r
        ELSE LET c == find_next_non_blank_token(toks, r.next) IN
             IF c # <<>> /\ KindAt(toks, c[1]) = "Colon"
             THEN LET t == Wrapped(parse_type_from_colon(toks, r.nodes, c[1]),
                                   MsgOf("expected a type expression after '{}'",
                                         get_string_repr("Colon")),
                                   c[1])
                  IN  IF t.kind # "Node" THEN t
                      ELSE parse_definition_from_eq(toks, push_node(t.nodes, t.node),
                                                    kw_token_idx, r.node, c,
                                                    <<Len(t.nodes)>>, t.next)
             ELSE parse_definition_from_eq(toks, r.nodes, kw_token_idx, r.node,
                                           <<>>, <<>>, r.next)

\* parse_definition_statement from "// must be '='" on
parse_definition_from_eq(toks, ns, kw_token_idx, lhs_expr, colon_token_idx, type_token_idx, next_token_idx_before_eq) ==
    LET m == must_find(toks, kw_token_idx, next_token_idx_before_eq,
                       MsgOf("expected definition format '{kw} ... = ...', but could not find '='",
                             get_string_repr(KindAt(toks, kw_token_idx))),
                       "Eq")
    IN  IF ~m.ok THEN PErr(m.err, ns)
        ELSE LET r == Wrapped(parse_call("parse_expression", toks, ns, m.idx + 1, 0),
                              MsgOf("expect an expression after '{}' for a definition",
                                    get_string_repr("Eq")),
                              kw_token_idx)
             IN  IF r.kind # "Node" THEN r
                 ELSE LET n == must_find(toks, kw_token_idx, r.next, StatementEndMsg,
                                         "SemiColon")
                      IN  IF ~n.ok THEN PErr(n.err, r.nodes)
                          ELSE PNode([kind |-> "Definition", kw |-> kw_token_idx,
                                      lhs_expression_node_idx |-> Len(r.nodes),
                                      colon |-> colon_token_idx,
                                      type_node_idx |-> type_token_idx,
                                      eq |-> m.idx,
                                      rhs_expression_node_idx |-> Len(r.nodes) + 1],
                                     n.idx + 1,
                                     push_node(push_node(r.nodes, lhs_expr), r.node))

\* a call of one parsing function from another: fn names the function called, a and
\* b are its arguments after the ast (b is used by parse_expression only)
parse_call(fn, toks, ns, a, b) ==
    CASE fn = "parse_expression" -> parse_expression(toks, ns, a, b)
      [] fn = "parse_primary" -> parse_primary(toks, ns, a)
      [] fn = "must_be_paren_expression" -> must_be_paren_expression(toks, ns, a)
      [] fn = "parse_return_expression" -> parse_return_expression(toks, ns, a)
      [] fn = "parse_block_expression" -> parse_block_expression(toks, ns, a)
      [] fn = "parse_if_expression" -> parse_if_expression(toks, ns, a)
      [] fn = "parse_statement" -> parse_statement(toks, ns, a)
      [] fn = "try_parse_expression_statement" -> try_parse_expression_statement(toks, ns, a)
      [] fn = "parse_definition_statement" -> parse_definition_statement(toks, ns, a)

RECURSIVE InvalidErrors(_, _)
\* the filter_map of get_lex_errors over the tokens from index i on
InvalidErrors(toks, i) ==
    IF i >= Len(toks) THEN <<>>
    ELSE IF KindAt(toks, i) = "Invalid"
    THEN <<<<toks[i + 1].fake[1], toks[i + 1].msg>>>> \o InvalidErrors(toks, i + 1)
    ELSE InvalidErrors(toks, i + 1)

get_lex_errors_bad(toks) ==
    IF InvalidErrors(toks, 0) = <<>> THEN <<>>
    ELSE <<LexErrors(<<Head(InvalidErrors(toks, 0))>>)>>

\* get_lex_errors: Some(LexErrors(..)) or None
get_lex_errors(toks) ==
    IF InvalidErrors(toks, 0) = <<>> THEN <<>>
    ELSE <<LexErrors(InvalidErrors(toks, 0))>>

---------------------------------------------------------------------------
(* parse as a state machine: Init is Ast::new (get_tokens has run), then   *)
(* parse either records the lexical errors or runs the loop of             *)
(* parse_module, one action per arm of its match.                          *)

\* Ast::new over the inputs of a specification
AstNew(inputs) ==
    /\ src \in {from_string(input) : input \in inputs}
    /\ tokens = get_tokens(src)
    /\ uc_idx = Len(src)
    /\ pc = "parse"
    /\ nodes = <<>>
    /\ next_token_idx = 0
    /\ module_stmts = <<>>
    /\ error = Empty
    /\ ast_error = <<>>
    /\ visited = <<>>
    /\ ctx_start_byte_idx = <<>>
    /\ error_byte_span = <<>>
    /\ diags = <<>>
    /\ diag_call = <<>>

\* Ast::set_error
set_error(old, e) == IF e.kind # "Empty" THEN <<e>> ELSE old

\* parse: Some(lex_errors) => ast.set_error(..)
ParseLexErrors ==
    /\ pc = "parse"
    /\ get_lex_errors(tokens) # <<>>
    /\ ast_error' = set_error(ast_error, new_single_error(get_lex_errors(tokens)[1]))
    /\ pc' = "done"
    /\ UNCHANGED <<src, uc_idx, tokens, nodes, next_token_idx, module_stmts, error, afterVars>>

\* parse: None => parse_module(&mut ast, TokenIdx::new(0)), up to its loop
ParseModuleEnter ==
    /\ pc = "parse"
    /\ get_lex_errors(tokens) = <<>>
    /\ next_token_idx' = 0
    /\ module_stmts' = <<>>
    /\ error' = Empty
    /\ pc' = "module"
    /\ UNCHANGED <<src, uc_idx, tokens, nodes, ast_error, afterVars>>

\* parse_module: Ok(HappyPath::Node { .. })
ModuleStatement ==
    /\ pc = "module"
    /\ LET r == parse_statement(tokens, nodes, next_token_idx) IN
        /\ r.kind = "Node"
        /\ nodes' = push_node(r.nodes, r.node)
        /\ module_stmts' = Append(module_stmts, Len(r.nodes))
        /\ next_token_idx' = r.next
        /\ pc' = IF r.node.kind \in {"StatExpression", "Definition"} THEN "module" ELSE "panic"
    /\ UNCHANGED <<src, uc_idx, tokens, error, ast_error, afterVars>>

\* parse_module: Ok(HappyPath::Finished), then set_error and set_module
ModuleFinished ==
    /\ pc = "module"
    /\ LET r == parse_statement(tokens, nodes, next_token_idx) IN
        /\ r.kind = "Finished"
        /\ ast_error' = set_error(ast_error, error)
        /\ nodes' = push_node(r.nodes,
                              [kind |-> "Module", statements_node_indices |-> module_stmts])
        /\ pc' = "done"
    /\ UNCHANGED <<src, uc_idx, tokens, next_token_idx, module_stmts, error, afterVars>>

\* parse_module: Err(e); a panic or a loop that never ends inside parse_statement
\* ends the run
ModuleError ==
    /\ pc = "module"
    /\ LET r == parse_statement(tokens, nodes, next_token_idx) IN
        /\ r.kind \in {"Err", "Panic", "Diverge"}
        /\ nodes' = r.nodes
        /\ IF r.kind = "Err"
           THEN /\ error' = add_new_error(error, r.err)
                /\ next_token_idx' = find_recovery_idx(tokens, next_token_idx)
                /\ pc' = "module"
           ELSE /\ UNCHANGED <<error, next_token_idx>>
                /\ pc' = IF r.kind = "Panic" THEN "panic" ELSE "diverged"
    /\ UNCHANGED <<src, uc_idx, tokens, module_stmts, ast_error, afterVars>>

Next ==
    \/ ParseLexErrors
    \/ ParseModuleEnter
    \/ ModuleStatement
    \/ ModuleFinished
    \/ ModuleError

ParseFragments ==
    {<<"i", "f", SP, "1", "{">>, <<"}">>, <<"e", "l", "s", "e", SP>>, <<"{">>,
     <<"l", "e", "t", SP, "a", "=">>, <<"0">>, <<";">>}

ParseInputs == {Concat(fs) : fs \in SeqsUpTo(ParseFragments, MaxParseLen)}

Init == AstNew(ParseInputs)

Spec == Init /\ [][Next]_vars

\* inputs of blanks, ';' and comments, and a little else
TriviaFragments == {<<SP>>, <<CR>>, <<LF>>, <<";">>, <<"#">>, <<"1">>}

TriviaInputs == {Concat(fs) : fs \in SeqsUpTo(TriviaFragments, MaxTriviaLen)}

InitTrivia == AstNew(TriviaInputs)

SpecTrivia == InitTrivia /\ [][Next]_vars

\* the binary operators, as the graphemes of their tokens
BinaryOperators ==
    {<<"*">>, <<"/">>, <<"%">>, <<"+">>, <<"-">>, <<"=", "=">>, <<"!", "=">>,
     <<"<">>, <<"<", "=">>, <<">">>, <<">", "=">>}

ExprPrimaries == {"1", "a"}

RECURSIVE OperatorExpressions(_)
\* the expressions of n binary operators over the primaries
OperatorExpressions(n) ==
    IF n = 0 THEN {<<p>> : p \in ExprPrimaries}
    ELSE {e \o op \o <<p>> :
              e \in OperatorExpressions(n - 1), op \in BinaryOperators, p \in ExprPrimaries}

\* an operator expression as a statement, at the end of input, or before a bad character
ExprInputs ==
    {e \o end : e \in UNION {OperatorExpressions(n) : n \in 0..MaxOps},
                end \in {<<";">>, <<>>, <<"^">>}}

InitExpr == AstNew(ExprInputs)

SpecExpr == InitExpr /\ [][Next]_vars

NegFragments == {<<"-">>, <<SP>>, <<"0">>, <<"a">>, <<";">>}

NegInputs == {Concat(fs) : fs \in SeqsUpTo(NegFragments, MaxNegLen)}

InitNeg == AstNew(NegInputs)

SpecNeg == InitNeg /\ [][Next]_vars

\* definitions with and without a type, parentheses, and a character of no token
DefFragments ==
    {<<"l", "e", "t", SP, "a">>, <<":">>, <<"b">>, <<"=", "1", ";">>, <<SP>>, <<"(">>,
     <<"-">>, <<"^">>}

DefInputs == {Concat(fs) : fs \in SeqsUpTo(DefFragments, MaxDefLen)}

InitDef == AstNew(DefInputs)

SpecDef == InitDef /\ [][Next]_vars

---------------------------------------------------------------------------
(* The diagnostic renderer (src/src/lexer/diags.rs).  It works on bytes:    *)
(* raw_content is modelled as the sequence of its bytes, a grapheme of n    *)
(* bytes being its name followed by n - 1 continuation bytes.               *)

Cont == "<cont>"

\* the bytes of one grapheme cluster
GraphemeBytes(g) ==
    IF g = CRLF THEN <<CR, LF>>
    ELSE IF g = MB THEN <<MB, Cont, Cont>>
    ELSE IF g = UM THEN <<"_", Cont, Cont>>
    ELSE <<g>>

\* CompilationUnit.raw_content, from the grapheme clusters it was cut into
raw_content(s) == Concat([k \in 1..Len(s) |-> GraphemeBytes(s[k])])

\* CompilationUnit::bytes_len
bytes_len(s) == Len(raw_content(s))

RECURSIVE ByteOffset(_, _)
\* the byte index of grapheme i: the idx of grapheme_indices
ByteOffset(s, i) == IF i = 0 THEN 0 ELSE ByteOffset(s, i - 1) + ByteLen(s[i])

ByteSpan(start, inclusive_end) == [start |-> start, inclusive_end |-> inclusive_end]

\* UcContent::get_byte_span over the spans UcContent::from has stored
UcIdx_get_byte_span(s, i) ==
    IF i >= 0 /\ i < Len(s)
    THEN <<ByteSpan(ByteOffset(s, i), ByteOffset(s, i) + ByteLen(s[i + 1]) - 1)>>
    ELSE <<>>

Min(a, b) == IF a <= b THEN a ELSE b
Max(a, b) == IF a >= b THEN a ELSE b

\* UcSpan::get_byte_span: both ends looked up (?), then ByteSpan::merge
UcSpan_get_byte_span(s, start, inclusive_end) ==
    LET a == UcIdx_get_byte_span(s, start)
        b == UcIdx_get_byte_span(s, inclusive_end)
    IN  IF a = <<>> \/ b = <<>> THEN <<>>
        ELSE <<ByteSpan(Min(a[1].start, b[1].start),
                        Max(a[1].inclusive_end, b[1].inclusive_end))>>

RECURSIVE split_inclusive(_, _, _)
\* the loop at the end of get_tokens over raw_content.split_inclusive('\n'): the
\* (line start byte index, line) pairs pushed into the DiagCtx
split_inclusive(bytes, byte_idx, line) ==
    IF bytes = <<>>
    THEN IF line = <<>> THEN <<>> ELSE <<[start |-> byte_idx, line |-> line]>>
    ELSE IF Head(bytes) = LF
    THEN <<[start |-> byte_idx, line |-> Append(line, LF)]>>
             \o split_inclusive(Tail(bytes), byte_idx + Len(line) + 1, <<>>)
    ELSE split_inclusive(Tail(bytes), byte_idx, Append(line, Head(bytes)))

line_starts(s) == split_inclusive(raw_content(s), 0, <<>>)

\* DiagCtx::get_line: Some((line_nr, line start, line)), None where the code panics
get_line(ls, start_byte_idx) ==
    LET found == {k \in 1..Len(ls) :
                     /\ ls[k].start <= start_byte_idx
                     /\ (k < Len(ls) => start_byte_idx < ls[k + 1].start)}
    IN  IF found = {} THEN <<>>
        ELSE LET k == CHOOSE k \in found : \A j \in found : k <= j
             IN  <<[line_nr |-> k, start |-> ls[k].start, line |-> ls[k].line]>>

\* str::is_char_boundary
is_char_boundary(line, i) == i = 0 \/ i = Len(line) \/ (i > 0 /\ i < Len(line) /\ line[i + 1] # Cont)

\* &line[a..b] does not panic
SliceOk(line, a, b) ==
    a <= b /\ b <= Len(line) /\ is_char_boundary(line, a) /\ is_char_boundary(line, b)

\* &line[a..b]
Slice(line, a, b) == SubSeq(line, a + 1, b)

\* UnicodeWidthStr::width: the sum of the widths of the chars, a wide char counting
\* two columns and a control char none
RECURSIVE width(_)
width(str) ==
    IF str = <<>> THEN 0
    ELSE width(Tail(str)) +
         (CASE Head(str) = MB -> 2
            [] Head(str) \in {Cont, LF, CR, "\t", "NUL"} -> 0
            [] OTHER -> 1)

\* str.grapheme_indices(true).count()
RECURSIVE grapheme_count(_)
grapheme_count(str) ==
    IF str = <<>> THEN 0
    ELSE IF Head(str) = Cont THEN grapheme_count(Tail(str))
    ELSE IF Head(str) = CR /\ Len(str) > 1 /\ str[2] = LF THEN grapheme_count(Tail(str))
    ELSE 1 + grapheme_count(Tail(str))

\* the value of a usize subtraction a - b that wraps around: beyond every length
WrappedUsize == 1000000

DiagBreak(ctx) == [kind |-> "break", ctx |-> ctx, err |-> <<>>, frame |-> <<>>]
DiagPanic == [kind |-> "panic", ctx |-> <<>>, err |-> <<>>, frame |-> <<>>]

\* diags.push(SingleLineDiagnostic { .. }) and the values the next iteration starts from
DiagFrame(l, leading_str, ctx_str, error_str, ctx, err) ==
    [kind |-> "frame", ctx |-> ctx, err |-> err,
     frame |-> [line |-> l.line, line_nr |-> l.line_nr,
                col_nr |-> grapheme_count(leading_str) + 1,
                leading_width |-> width(leading_str),
                ctx_width |-> width(ctx_str),
                error_width |-> width(error_str)]]

ErrorPart_bad(l, e, error_start_idx, error_inclusive_end_idx) ==
    IF Len(l.line) > error_inclusive_end_idx
    THEN [ok |-> SliceOk(l.line, error_start_idx, error_inclusive_end_idx + 1),
          str |-> Slice(l.line, error_start_idx, error_inclusive_end_idx + 1),
          err |-> <<>>]
    ELSE [ok |-> SliceOk(l.line, error_start_idx, Len(l.line)),
          str |-> Slice(l.line, error_start_idx, Len(l.line)),
          err |-> <<ByteSpan(e.start + 1, e.inclusive_end)>>]

\* the error part of a line: what fits of the span, and the span left for the next line
ErrorPart(l, e, error_start_idx, error_inclusive_end_idx) ==
    IF Len(l.line) > error_inclusive_end_idx
    THEN [ok |-> SliceOk(l.line, error_start_idx, error_inclusive_end_idx + 1),
          str |-> Slice(l.line, error_start_idx, error_inclusive_end_idx + 1),
          err |-> <<>>]
    ELSE [ok |-> SliceOk(l.line, error_start_idx, Len(l.line)),
          str |-> Slice(l.line, error_start_idx, Len(l.line)),
          err |-> <<ByteSpan(e.start + (Len(l.line) - error_start_idx), e.inclusive_end)>>]

\* the body of the loop of get_diags from "let (leading_str, ctx_str, error_str)" on,
\* with a context: ctx is Some(c)
DiagWithCtx(l, c, err, overflow_checks) ==
    IF ~SliceOk(l.line, 0, c - l.start) THEN DiagPanic
    ELSE
    LET leading_str == Slice(l.line, 0, c - l.start) IN
    IF err = <<>>
    THEN DiagFrame(l, leading_str, Slice(l.line, Len(leading_str), Len(l.line)), <<>>,
                   <<c + (Len(l.line) - Len(leading_str))>>, err)
    ELSE IF overflow_checks /\ (err[1].start < l.start \/ err[1].inclusive_end < l.start)
    THEN DiagPanic
    ELSE
    LET error_start_idx ==
            IF err[1].start < l.start THEN WrappedUsize ELSE err[1].start - l.start
        error_inclusive_end_idx ==
            IF err[1].inclusive_end < l.start THEN WrappedUsize
            ELSE err[1].inclusive_end - l.start
    IN  IF Len(l.line) > error_start_idx
        THEN LET p == ErrorPart(l, err[1], error_start_idx, error_inclusive_end_idx) IN
             IF ~SliceOk(l.line, Len(leading_str), error_start_idx) \/ ~p.ok THEN DiagPanic
             ELSE DiagFrame(l, leading_str, Slice(l.line, Len(leading_str), error_start_idx),
                            p.str, <<>>, p.err)
        ELSE DiagFrame(l, leading_str, Slice(l.line, Len(leading_str), Len(l.line)), <<>>,
                       <<c + (Len(l.line) - Len(leading_str))>>, err)

\* the same without a context: ctx is None and the error span is there
DiagNoCtx(l, err, overflow_checks) ==
    IF overflow_checks /\ err[1].inclusive_end < l.start THEN DiagPanic
    ELSE
    LET error_start_idx == err[1].start - l.start
        error_inclusive_end_idx ==
            IF err[1].inclusive_end < l.start THEN WrappedUsize
            ELSE err[1].inclusive_end - l.start
        p == ErrorPart(l, err[1], error_start_idx, error_inclusive_end_idx)
    IN  IF ~SliceOk(l.line, 0, error_start_idx) \/ ~p.ok THEN DiagPanic
        ELSE DiagFrame(l, Slice(l.line, 0, error_start_idx), <<>>, p.str, <<>>, p.err)

\* one iteration of the loop of get_diags: a break, a panic, or a frame and the
\* context and error the next iteration starts from
get_diags_iteration(s, ctx, err, overflow_checks) ==
    LET same == ctx # <<>> /\ err # <<>> /\ ctx[1] = err[1].start
        ctx1 == IF same THEN <<>> ELSE ctx
        start_byte_idx == IF ctx1 # <<>> THEN ctx1[1] ELSE err[1].start
    IN  IF ctx = <<>> /\ err = <<>> THEN DiagBreak(ctx)
        ELSE IF start_byte_idx = bytes_len(s) THEN [DiagBreak(ctx1) EXCEPT !.err = err]
        ELSE LET l == get_line(line_starts(s), start_byte_idx) IN
             IF l = <<>> THEN DiagPanic
             ELSE IF ctx1 # <<>> THEN DiagWithCtx(l[1], ctx1[1], err, overflow_checks)
             ELSE DiagNoCtx(l[1], err, overflow_checks)

---------------------------------------------------------------------------
(* The renderer as a state machine: the three callers of get_diags, then    *)
(* one action per way an iteration of its loop ends.                        *)

\* the frame of the caller: its name and its token arguments
DiagCall(fn, ctx_token_idx, error_token_idx) ==
    <<[fn |-> fn, ctx_token_idx |-> ctx_token_idx, error_token_idx |-> error_token_idx]>>

\* token.uc_span.get_byte_span(cu)
TokenByteSpan(s, toks, token_idx) ==
    UcSpan_get_byte_span(s, toks[token_idx + 1].start, toks[token_idx + 1].end)

\* DiagCtx::get_diag_with_error_token up to the loop of get_diags
GetDiagWithErrorToken ==
    /\ pc \in {"parse", "done"}
    /\ \E error_token_idx \in 0..(Len(tokens) - 1) :
          /\ diag_call' = DiagCall("get_diag_with_error_token", <<>>, <<error_token_idx>>)
          /\ ctx_start_byte_idx' = <<>>
          /\ error_byte_span' = TokenByteSpan(src, tokens, error_token_idx)
    /\ diags' = <<>>
    /\ pc' = "diags"
    /\ UNCHANGED <<src, uc_idx, tokens, nodes, next_token_idx, module_stmts, error, ast_error,
                   visited>>

\* DiagCtx::get_diag_with_ctx_token up to the loop of get_diags;
\* get_start_byte_idx_unchecked panics on a span outside the source
GetDiagWithCtxToken ==
    /\ pc \in {"parse", "done"}
    /\ \E ctx_token_idx \in 0..(Len(tokens) - 1) :
          LET span == TokenByteSpan(src, tokens, ctx_token_idx) IN
          /\ diag_call' = DiagCall("get_diag_with_ctx_token", <<ctx_token_idx>>, <<>>)
          /\ ctx_start_byte_idx' = IF span = <<>> THEN <<>> ELSE <<span[1].start>>
          /\ pc' = IF span = <<>> THEN "panic" ELSE "diags"
    /\ error_byte_span' = <<>>
    /\ diags' = <<>>
    /\ UNCHANGED <<src, uc_idx, tokens, nodes, next_token_idx, module_stmts, error, ast_error,
                   visited>>

\* DiagCtx::get_diag_with_ctx_and_error_tokens up to the loop of get_diags
GetDiagWithCtxAndErrorTokens ==
    /\ pc \in {"parse", "done"}
    /\ \E ctx_token_idx \in 0..(Len(tokens) - 1), error_token_idx \in 0..(Len(tokens) - 1) :
          LET span == TokenByteSpan(src, tokens, ctx_token_idx) IN
          /\ diag_call' = DiagCall("get_diag_with_ctx_and_error_tokens",
                                   <<ctx_token_idx>>, <<error_token_idx>>)
          /\ ctx_start_byte_idx' = IF span = <<>> THEN <<>> ELSE <<span[1].start>>
          /\ error_byte_span' =
                 IF span = <<>> THEN <<>> ELSE TokenByteSpan(src, tokens, error_token_idx)
          /\ pc' = IF span = <<>> THEN "panic" ELSE "diags"
    /\ diags' = <<>>
    /\ UNCHANGED <<src, uc_idx, tokens, nodes, next_token_idx, module_stmts, error, ast_error,
                   visited>>

\* get_diags: an iteration that pushes a frame
GetDiagsFrame ==
    /\ pc = "diags"
    /\ \E overflow_checks \in BOOLEAN :
          LET r == get_diags_iteration(src, ctx_start_byte_idx, error_byte_span,
                                       overflow_checks) IN
          /\ r.kind = "frame"
          /\ diags' = Append(diags, r.frame)
          /\ ctx_start_byte_idx' = r.ctx
          /\ error_byte_span' = r.err
    /\ pc' = "diags"
    /\ UNCHANGED <<src, uc_idx, tokens, nodes, next_token_idx, module_stmts, error, ast_error,
                   visited, diag_call>>

\* get_diags: the loop breaks; no frame at all is the panic "BUG: no diags"
GetDiagsReturn ==
    /\ pc = "diags"
    /\ LET r == get_diags_iteration(src, ctx_start_byte_idx, error_byte_span, TRUE) IN
          /\ r.kind = "break"
          /\ ctx_start_byte_idx' = r.ctx
          /\ error_byte_span' = r.err
    /\ pc' = IF diags = <<>> THEN "panic" ELSE "rendered"
    /\ UNCHANGED <<src, uc_idx, tokens, nodes, next_token_idx, module_stmts, error, ast_error,
                   visited, diag_call, diags>>

\* get_diags: an iteration that panics: no line, a slice out of its line, or a
\* subtraction below zero with overflow checks on
GetDiagsPanic ==
    /\ pc = "diags"
    /\ \E overflow_checks \in BOOLEAN :
          get_diags_iteration(src, ctx_start_byte_idx, error_byte_span,
                              overflow_checks).kind = "panic"
    /\ pc' = "panic"
    /\ UNCHANGED <<src, uc_idx, tokens, nodes, next_token_idx, module_stmts, error, ast_error,
                   visited, diag_call, ctx_start_byte_idx, error_byte_span, diags>>

NextDiag ==
    \/ GetDiagWithErrorToken
    \/ GetDiagWithCtxToken
    \/ GetDiagWithCtxAndErrorTokens
    \/ GetDiagsFrame
    \/ GetDiagsReturn
    \/ GetDiagsPanic

DiagFragments == {<<"a">>, <<SP>>, <<MB>>, <<LF>>, <<DQ>>, <<BS, "u">>}

DiagInputs == {Concat(fs) : fs \in SeqsUpTo(DiagFragments, MaxDiagLen)}

InitDiag == AstNew(DiagInputs)

SpecDiag == InitDiag /\ [][NextDiag]_vars

---------------------------------------------------------------------------
(* 64-bit signed integers.  An i64 is a sign and a magnitude; a magnitude   *)
(* is the sequence of its digits in base 10000, least significant first,    *)
(* without leading zeros (0 is the empty sequence), so that no value of the *)
(* model depends on the width of the integers of the checker.               *)

Base == 10000

RECURSIVE NatNorm(_)
\* a digit sequence without its leading zeros
NatNorm(a) ==
    IF a = <<>> THEN <<>>
    ELSE IF a[Len(a)] = 0 THEN NatNorm(SubSeq(a, 1, Len(a) - 1))
    ELSE a

Rest(a) == IF a = <<>> THEN <<>> ELSE Tail(a)
Low(a) == IF a = <<>> THEN 0 ELSE Head(a)

RECURSIVE NatAdd(_, _, _)
NatAdd(a, b, carry) ==
    IF a = <<>> /\ b = <<>> THEN (IF carry = 0 THEN <<>> ELSE <<carry>>)
    ELSE LET x == Low(a) + Low(b) + carry IN
         <<x % Base>> \o NatAdd(Rest(a), Rest(b), x \div Base)

RECURSIVE NatLess(_, _)
\* a < b, for magnitudes without leading zeros, or of one length
NatLess(a, b) ==
    IF Len(a) # Len(b) THEN Len(a) < Len(b)
    ELSE IF a = <<>> THEN FALSE
    ELSE IF a[Len(a)] # b[Len(b)] THEN a[Len(a)] < b[Len(b)]
    ELSE NatLess(SubSeq(a, 1, Len(a) - 1), SubSeq(b, 1, Len(b) - 1))

RECURSIVE NatSubDigits(_, _, _)
NatSubDigits(a, b, borrow) ==
    IF a = <<>> THEN <<>>
    ELSE LET x == Low(a) - Low(b) - borrow IN
         <<(x + Base) % Base>> \o NatSubDigits(Rest(a), Rest(b), IF x < 0 THEN 1 ELSE 0)

\* a - b, for a >= b
NatSub(a, b) == NatNorm(NatSubDigits(a, b, 0))

RECURSIVE NatMulDigit(_, _, _)
NatMulDigit(a, d, carry) ==
    IF a = <<>> THEN (IF carry = 0 THEN <<>> ELSE <<carry>>)
    ELSE LET x == Head(a) * d + carry IN
         <<x % Base>> \o NatMulDigit(Tail(a), d, x \div Base)

RECURSIVE NatMul(_, _)
NatMul(a, b) ==
    IF b = <<>> THEN <<>>
    ELSE NatNorm(NatAdd(NatMulDigit(a, Head(b), 0), <<0>> \o NatMul(a, Tail(b)), 0))

RECURSIVE DigitQuot(_, _, _, _)
\* the largest digit d of lo..hi with d * b <= r, for lo * b <= r
DigitQuot(r, b, lo, hi) ==
    IF lo = hi THEN lo
    ELSE LET mid == (lo + hi + 1) \div 2 IN
         IF NatLess(r, NatNorm(NatMulDigit(b, mid, 0))) THEN DigitQuot(r, b, lo, mid - 1)
         ELSE DigitQuot(r, b, mid, hi)

RECURSIVE NatDivMod(_, _)
\* long division, for b # 0: the quotient and the remainder
NatDivMod(a, b) ==
    IF a = <<>> THEN [q |-> <<>>, r |-> <<>>]
    ELSE LET high == NatDivMod(Tail(a), b)
             r0 == NatNorm(<<Head(a)>> \o high.r)
             d == DigitQuot(r0, b, 0, Base - 1)
         IN  [q |-> NatNorm(<<d>> \o high.q), r |-> NatSub(r0, NatNorm(NatMulDigit(b, d, 0)))]

\* the magnitude of a sequence of decimal digits, most significant first
NatOfDigits(ds) ==
    LET n == Len(ds)
        Digit(p) == IF p <= n THEN ds[n - p + 1] ELSE 0
    IN  NatNorm([j \in 1..((n + 3) \div 4) |->
                    Digit(4 * j - 3) + 10 * Digit(4 * j - 2) + 100 * Digit(4 * j - 1)
                    + 1000 * Digit(4 * j)])

\* a value with a sign; zero has no sign
Signed(neg, mag) == [neg |-> neg /\ mag # <<>>, mag |-> mag]

IntNeg(x) == Signed(~x.neg, x.mag)

IntAdd(x, y) ==
    IF x.neg = y.neg THEN Signed(x.neg, NatAdd(x.mag, y.mag, 0))
    ELSE IF NatLess(x.mag, y.mag) THEN Signed(y.neg, NatSub(y.mag, x.mag))
    ELSE Signed(x.neg, NatSub(x.mag, y.mag))

IntSub(x, y) == IntAdd(x, IntNeg(y))

IntMul(x, y) == Signed(x.neg # y.neg, NatMul(x.mag, y.mag))

\* the operators / and % of Rust: the quotient is rounded towards zero and the
\* remainder has the sign of the dividend
IntDiv(x, y) == Signed(x.neg # y.neg, NatDivMod(x.mag, y.mag).q)
IntRem(x, y) == Signed(x.neg, NatDivMod(x.mag, y.mag).r)

\* i64::MAX = 9223372036854775807 and i64::MIN = -9223372036854775808
I64_MAX == Signed(FALSE, NatOfDigits(<<9, 2, 2, 3, 3, 7, 2, 0, 3, 6, 8, 5, 4, 7, 7, 5, 8, 0, 7>>))
I64_MIN == Signed(TRUE, NatOfDigits(<<9, 2, 2, 3, 3, 7, 2, 0, 3, 6, 8, 5, 4, 7, 7, 5, 8, 0, 8>>))

\* the value fits an i64
InI64(x) == IF x.neg THEN ~NatLess(I64_MIN.mag, x.mag) ELSE ~NatLess(I64_MAX.mag, x.mag)

Checked(x) == IF InI64(x) THEN <<x>> ELSE <<>>

\* i64::checked_add, checked_sub, checked_mul: None on overflow
checked_add(x, y) == Checked(IntAdd(x, y))
checked_sub(x, y) == Checked(IntSub(x, y))
checked_mul(x, y) == Checked(IntMul(x, y))

\* i64::checked_div, checked_rem: None if rhs == 0 or (self == MIN and rhs == -1)
checked_div(x, y) ==
    IF y.mag = <<>> \/ (x = I64_MIN /\ y = Signed(TRUE, <<1>>)) THEN <<>> ELSE <<IntDiv(x, y)>>
checked_rem(x, y) ==
    IF y.mag = <<>> \/ (x = I64_MIN /\ y = Signed(TRUE, <<1>>)) THEN <<>> ELSE <<IntRem(x, y)>>

\* <i64 as FromStr>::from_str: an optional sign, then one decimal digit or more;
\* None when the text is not of this form or the value does not fit
i64_from_str(text) ==
    LET signed == text # <<>> /\ Head(text) \in {"-", "+"}
        digits == IF signed THEN Tail(text) ELSE text
    IN  IF digits = <<>> \/ \E k \in 1..Len(digits) : digits[k] \notin AsciiDigits THEN <<>>
        ELSE Checked(Signed(signed /\ Head(text) = "-",
                         NatOfDigits([k \in 1..Len(digits) |-> HexDigitValue(digits[k])])))

---------------------------------------------------------------------------
(* The visitors of the ast (src/src/ast/visitor.rs).  A String is the       *)
(* sequence of its characters.                                              *)

\* the characters of the printable ascii range, from U+0020 to U+007E
PrintableAscii ==
    <<SP, "!", DQ, "#", "$", "%", "&", "'", "(", ")", "*", "+", ",", "-", ".", "/",
      "0", "1", "2", "3", "4", "5", "6", "7", "8", "9", ":", ";", "<", "=", ">", "?",
      "@", "A", "B", "C", "D", "E", "F", "G", "H", "I", "J", "K", "L", "M", "N", "O",
      "P", "Q", "R", "S", "T", "U", "V", "W", "X", "Y", "Z", "[", BS, "]", "^", "_",
      "GRAVE", "a", "b", "c", "d", "e", "f", "g", "h", "i", "j", "k", "l", "m", "n", "o",
      "p", "q", "r", "s", "t", "u", "v", "w", "x", "y", "z", "{", "|", "}", "~">>

\* the character of a scalar value; every character past ascii is the multi-byte
\* character of the model
char_from_u32(n) ==
    CASE n = 0 -> "NUL"
      [] n = 9 -> "\t"
      [] n = 10 -> LF
      [] n = 13 -> CR
      [] n >= 32 /\ n <= 126 -> PrintableAscii[n - 31]
      [] n < 128 -> "CTRL"
      [] OTHER -> MB

RECURSIVE ContentChars(_)
\* the characters of the content of a string literal
ContentChars(content) ==
    IF content = <<>> THEN <<>>
    ELSE LET item == Head(content)
             chars == IF item[1] = "u" THEN <<char_from_u32(item[2][1])>>
                      ELSE IF item[2][1] = CRLF THEN <<CR, LF>>
                      ELSE item[2]
         IN  chars \o ContentChars(Tail(content))

\* Token::get_str
TokenStr(s, toks, token_idx) == GetSpanStr(s, toks[token_idx + 1].start, toks[token_idx + 1].end)

\* AstPrinter::get_leading_indent
get_leading_indent(indent) == [k \in 1..(indent * 4) |-> SP]

RECURSIVE print_with_indent(_, _, _, _, _)
RECURSIVE PrintAll(_, _, _, _, _)

\* the statements of a list, each printed with the indent, one after the other
PrintAll(ns, toks, s, indices, indent) ==
    IF indices = <<>> THEN <<>>
    ELSE print_with_indent(ns, toks, s, ns[Head(indices) + 1], indent)
         \o PrintAll(ns, toks, s, Tail(indices), indent)

\* AstPrinter::print_with_indent; get_string_unchecked of a node index prints the
\* node with a new printer, that is with indent 0
print_with_indent(ns, toks, s, node, indent) ==
    LET Tok(token_idx) == TokenStr(s, toks, token_idx)
        Node(node_idx) == print_with_indent(ns, toks, s, ns[node_idx + 1], 0)
    IN
    CASE node.kind = "Module" -> PrintAll(ns, toks, s, node.statements_node_indices, indent)
      [] node.kind = "Definition" ->
            get_leading_indent(indent) \o Tok(node.kw) \o <<SP>>
            \o Node(node.lhs_expression_node_idx)
            \o (IF node.colon = <<>> THEN <<>> ELSE Tok(node.colon[1]) \o <<SP>>)
            \o (IF node.type_node_idx = <<>> THEN <<>> ELSE Node(node.type_node_idx[1]))
            \o <<SP>> \o Tok(node.eq) \o <<SP>> \o Node(node.rhs_expression_node_idx)
            \o <<";", LF>>
      [] node.kind = "StatExpression" ->
            get_leading_indent(indent)
            \o print_with_indent(ns, toks, s, ns[node.expression_node_idx + 1], indent + 1)
            \o <<";", LF>>
      [] node.kind = "If" ->
            Tok(node.if_kw) \o <<SP>> \o Node(node.condition_node_idx) \o <<SP>>
            \o Node(node.then_block_node_idx) \o <<SP>>
            \o (IF node.else_kw = <<>> THEN <<>>
                ELSE Tok(node.else_kw[1]) \o <<SP>>
                     \o (IF node.else_block_node_idx = <<>> THEN <<>>
                         ELSE Node(node.else_block_node_idx[1]))
                     \o (IF node.if_node_idx = <<>> THEN <<>> ELSE Node(node.if_node_idx[1])))
      [] node.kind \in {"I64", "Identifier"} -> Tok(node.token)
      [] node.kind = "StringLiteral" -> ContentChars(node.content)
      [] node.kind = "ArithmeticOrLogical" ->
            Node(node.lhs) \o <<SP>> \o Tok(node.operator) \o <<SP>> \o Node(node.rhs)
      [] node.kind = "Negation" -> <<"-">> \o Node(node.operand)
      [] node.kind = "Grouped" ->
            Tok(node.lparen) \o <<SP>> \o Node(node.expression_node_idx) \o <<SP>>
            \o Tok(node.rparen)
      [] node.kind = "Block" ->
            Tok(node.lcurlybracket) \o <<LF>>
            \o PrintAll(ns, toks, s, node.statements_node_indices, indent + 1)
            \o Tok(node.rcurlybracket)
      [] node.kind = "Return" ->
            Tok(node.return_kw) \o <<SP>>
            \o (IF node.expression_node_idx = <<>> THEN <<>>
                ELSE Node(node.expression_node_idx[1]))
      [] node.kind = "AnnoType" -> Tok(node.token_idx)

\* Result<Option<i64>, String>, and a panic of the evaluator
EvalOk(value) == [kind |-> "Ok", value |-> value, msg |-> ""]
EvalErr(msg) == [kind |-> "Err", value |-> <<>>, msg |-> msg]
EvalPanic == [kind |-> "Panic", value |-> <<>>, msg |-> ""]

\* str::parse::<i64>() under map_err and map(Some)
ParsedI64(text) ==
    LET v == i64_from_str(text) IN
    IF v = <<>> THEN EvalErr("BUG: failed to parse i64 token") ELSE EvalOk(v)

\* Option<i64> under ok_or_else and map(Some)
CheckedI64(v) == IF v = <<>> THEN EvalErr("overflows") ELSE EvalOk(v)

negation_bad(text) ==
    LET v == i64_from_str(text) IN
    IF v = <<>> THEN EvalErr("BUG: failed to parse i64 token") ELSE EvalOk(<<IntNeg(v[1])>>)

\* the Negation arm: format!("-{}", operand).parse()
negation(text) == ParsedI64(<<"-">> \o text)

RECURSIVE visit(_, _, _, _)
\* AstEvaluator::visit
visit(ns, toks, s, node) ==
    LET Visit(node_idx) == visit(ns, toks, s, ns[node_idx + 1]) IN
    CASE node.kind = "Module" ->
            IF node.statements_node_indices = <<>> THEN EvalOk(<<>>)
            ELSE Visit(node.statements_node_indices[1])
      [] node.kind = "If" ->
            LET c == Visit(node.condition_node_idx) IN
            IF c.kind # "Ok" THEN c
            ELSE IF c.value = <<>> THEN EvalPanic
            ELSE IF c.value[1].mag # <<>> THEN Visit(node.then_block_node_idx)
            ELSE IF node.else_block_node_idx # <<>> THEN Visit(node.else_block_node_idx[1])
            ELSE EvalOk(<<>>)
      [] node.kind = "Block" -> EvalPanic
      [] node.kind = "StatExpression" -> Visit(node.expression_node_idx)
      [] node.kind = "Definition" -> EvalPanic
      [] node.kind = "I64" ->
            IF KindAt(toks, node.token) = "I64" THEN ParsedI64(TokenStr(s, toks, node.token))
            ELSE EvalPanic
      [] node.kind \in {"StringLiteral", "Identifier"} -> EvalPanic
      [] node.kind = "ArithmeticOrLogical" ->
            LET l == Visit(node.lhs) IN
            IF l.kind # "Ok" THEN l
            ELSE IF l.value = <<>> THEN EvalPanic
            ELSE LET r == Visit(node.rhs) IN
                 IF r.kind # "Ok" THEN r
                 ELSE IF r.value = <<>> THEN EvalPanic
                 ELSE LET k == KindAt(toks, node.operator) IN
                      CASE k = "Plus" -> CheckedI64(checked_add(l.value[1], r.value[1]))
                        [] k = "Minus" -> CheckedI64(checked_sub(l.value[1], r.value[1]))
                        [] k = "Star" -> CheckedI64(checked_mul(l.value[1], r.value[1]))
                        [] k = "Slash" -> CheckedI64(checked_div(l.value[1], r.value[1]))
                        [] k = "Percent" -> CheckedI64(checked_rem(l.value[1], r.value[1]))
                        [] OTHER -> EvalPanic
      [] node.kind = "Negation" ->
            IF KindAt(toks, node.operator) = "Minus"
            THEN negation(print_with_indent(ns, toks, s, ns[node.operand + 1], 0))
            ELSE EvalPanic
      [] node.kind = "Grouped" -> Visit(node.expression_node_idx)
      [] node.kind = "Return" ->
            IF node.expression_node_idx = <<>> THEN EvalPanic
            ELSE Visit(node.expression_node_idx[1])
      [] node.kind = "AnnoType" -> EvalPanic

\* Ast::accept(&mut AstEvaluator::new(&ast)): the visitor visits nodes.last(), which
\* panics on an arena without a node
AcceptEvaluator ==
    /\ pc = "done"
    /\ LET r == IF nodes = <<>> THEN EvalPanic ELSE visit(nodes, tokens, src, nodes[Len(nodes)])
       IN  /\ visited' = <<r>>
           /\ pc' = IF r.kind = "Panic" THEN "panic" ELSE "visited"
    /\ UNCHANGED <<src, uc_idx, tokens, nodes, next_token_idx, module_stmts, error, ast_error,
                   ctx_start_byte_idx, error_byte_span, diags, diag_call>>

NextEval ==
    \/ Next
    \/ AcceptEvaluator

\* the texts of i64::MAX and of the magnitude of i64::MIN
MaxText ==
    <<"9", "2", "2", "3", "3", "7", "2", "0", "3", "6", "8", "5", "4", "7", "7", "5", "8", "0", "7">>
MinText ==
    <<"9", "2", "2", "3", "3", "7", "2", "0", "3", "6", "8", "5", "4", "7", "7", "5", "8", "0", "8">>

EvalOperands == {<<"-", "1">>, <<"-">> \o MinText}

EvalOperators == {"+", "-", "*", "/", "%"}

RECURSIVE EvalExpressions(_)
\* the expressions of n operators: one more operator to the right of an expression,
\* or to the left of it in parentheses
EvalExpressions(n) ==
    IF n = 0 THEN EvalOperands
    ELSE {e \o <<SP, op, SP>> \o p :
              e \in EvalExpressions(n - 1), op \in EvalOperators, p \in EvalOperands}
         \cup {p \o <<SP, op, SP, "(">> \o e \o <<")">> :
                   e \in EvalExpressions(n - 1), op \in EvalOperators, p \in EvalOperands}

\* the sources of test_eval, the largest literal, a literal that does not fit, and a
\* lexical error
EvalTests ==
    {<<"1", ";">>, <<"1", "+", "1", ";">>, <<"1", "-", "1", ";">>,
     <<"7", "%", "2", SP, "+", SP, "3", SP, "*", SP, "(", "1", "2", SP, "/", SP, "(", SP,
       "1", "5", SP, "/", SP, "-", SP, "3", "+", "1", SP, "-", SP, "-", SP, "1", ")", SP,
       ")", SP, "-", SP, "2", SP, "-", SP, "1", SP, "+", SP, "1", ";">>,
     MaxText \o <<";">>, MinText \o <<";">>, <<"0", "1", ";">>}

EvalInputs ==
    {e \o end : e \in UNION {EvalExpressions(n) : n \in 0..MaxEvalOps}, end \in {<<";">>, <<>>}}
    \cup EvalTests

InitEval == AstNew(EvalInputs)

SpecEval == InitEval /\ [][NextEval]_vars

\* the Ast that parse returns, or the way it does not return
Ast(ns, e) == [kind |-> "Ast", nodes |-> ns, error |-> e]
NoAst(kind) == [kind |-> kind, nodes |-> <<>>, error |-> <<>>]

RECURSIVE parse_module(_, _, _, _, _)
\* parse_module as a function of the tokens: the loop of the actions ModuleStatement,
\* ModuleError and ModuleFinished from next_token_idx on
parse_module(toks, ns, next, statements_node_indices, e) ==
    LET r == parse_statement(toks, ns, next) IN
    CASE r.kind = "Node" ->
            IF r.node.kind \notin {"StatExpression", "Definition"} THEN NoAst("Panic")
            ELSE IF r.next <= next THEN NoAst("Diverge")
            ELSE parse_module(toks, push_node(r.nodes, r.node), r.next,
                              Append(statements_node_indices, Len(r.nodes)), e)
      [] r.kind = "Finished" ->
            Ast(push_node(r.nodes, [kind |-> "Module",
                                    statements_node_indices |-> statements_node_indices]),
                set_error(<<>>, e))
      [] r.kind = "Err" ->
            IF find_recovery_idx(toks, next) <= next THEN NoAst("Diverge")
            ELSE parse_module(toks, r.nodes, find_recovery_idx(toks, next),
                              statements_node_indices, add_new_error(e, r.err))
      [] OTHER -> NoAst(r.kind)

\* parse, as a function of the graphemes of the compilation unit
parse(s) ==
    LET toks == get_tokens(s) IN
    IF get_lex_errors(toks) # <<>>
    THEN Ast(<<>>, set_error(<<>>, new_single_error(get_lex_errors(toks)[1])))
    ELSE parse_module(toks, <<>>, 0, <<>>, Empty)

\* the String a printer returns, and a panic of Ast::accept
Printed(str) == [kind |-> "Printed", str |-> str]
PrintPanic == [kind |-> "Panic", str |-> <<>>]

\* Ast::accept(&mut AstPrinter::new(&ast)) on the arena ns of the tokens toks
accept_printer(ns, toks, s) ==
    IF ns = <<>> THEN PrintPanic
    ELSE Printed(print_with_indent(ns, toks, s, ns[Len(ns)], 0))

\* Ast::accept(&mut AstPrinter::new(&ast))
AcceptPrinter ==
    /\ pc = "done"
    /\ LET r == accept_printer(nodes, tokens, src) IN
        /\ visited' = <<r>>
        /\ pc' = IF r.kind = "Panic" THEN "panic" ELSE "visited"
    /\ UNCHANGED <<src, uc_idx, tokens, nodes, next_token_idx, module_stmts, error, ast_error,
                   ctx_start_byte_idx, error_byte_span, diags, diag_call>>

NextPrint ==
    \/ Next
    \/ AcceptPrinter

PrintFragments ==
    {<<"i", "f", SP, "0", "{">>, <<"}">>, <<"}", "e", "l", "s", "e", "{">>, <<"1">>, <<";">>,
     <<"1", ";">>, <<DQ>>, <<"(">>, <<")">>, <<"-">>, <<"l", "e", "t", SP, "a", "=">>}

PrintInputs == {Concat(fs) : fs \in SeqsUpTo(PrintFragments, MaxPrintLen)}

InitPrint == AstNew(PrintInputs)

SpecPrint == InitPrint /\ [][NextPrint]_vars

---------------------------------------------------------------------------
(* Properties of the lexer. *)

StringErrorTexts ==
    {"unterminated string literal",
     "invalid escape char '{}'",
     "unicode should be in the format of \\u{...}",
     "only hex numbers are allowed in unicode sequence, '{}' is not allowed",
     "unicode should be in the format of \\u{...}, cannot be empty between '{}'",
     "'{}' is not a valid unicode code point"}

IsStringError(t) == t.kind = "Invalid" /\ t.msg.text \in StringErrorTexts

\* the spans of a token sequence, in order, partition the grapheme indices 0..n-1
Partitions(toks, n) ==
    /\ (toks = <<>>) = (n = 0)
    /\ toks # <<>> => toks[1].start = 0 /\ toks[Len(toks)].end = n - 1
    /\ \A k \in 1..Len(toks) : toks[k].start <= toks[k].end
    /\ \A k \in 1..(Len(toks) - 1) : toks[k + 1].start = toks[k].end + 1

NotInvalid(t) == t.kind # "Invalid"

\* C1: every iteration of the loop of get_tokens, the error paths of try_string and
\* try_multi_byte_char included, ends without a panic and moves the grapheme index
\* strictly forward, never past the grapheme count; the loop ends exactly when the
\* index has reached the grapheme count.
C1_LexAdvances ==
    [][pc = "lex" =>
         /\ pc' # "panic"
         /\ pc' = "lex" => (uc_idx' > uc_idx /\ uc_idx' <= Len(src))
         /\ pc' = "done" => uc_idx' = Len(src)]_vars

C1_Witness ==
    /\ pc = "done"
    /\ \E k \in 1..Len(tokens) : IsStringError(tokens[k])
    /\ \E k \in 1..Len(tokens) :
          tokens[k].kind = "Invalid" /\ tokens[k].start < tokens[k].end /\ ~IsStringError(tokens[k])

---------------------------------------------------------------------------
(* Properties of parse. *)

HasInvalid(toks) == \E k \in 1..Len(toks) : toks[k].kind = "Invalid"

\* the top-level errors collected in a ParseError, oldest first
ErrorList(e) ==
    IF e.kind = "Empty" THEN <<>>
    ELSE IF e.kind = "MutilParseError" THEN e.errors
    ELSE <<e>>

RECURSIVE LeafOf(_)
\* the bare error an error starts with
LeafOf(e) == IF e.kind = "SingleParseError" THEN e.e ELSE LeafOf(e.errors[1])

RECURSIVE ContainsLexErrors(_)
ContainsLexErrors(e) ==
    IF e.kind = "Empty" THEN FALSE
    ELSE IF e.kind = "SingleParseError" THEN e.e.t = "LexErrors"
    ELSE \E k \in 1..Len(e.errors) : ContainsLexErrors(e.errors[k])

\* the token an error is reported at: its error token, its context at the end of input
ErrorToken(leaf) ==
    CASE leaf.t = "UnexpectedToken" -> leaf.error_token_idx
      [] leaf.t = "MismatchedParentheses" -> leaf.error_token_idx
      [] leaf.t = "UnexpectedEof" -> leaf.ctx_token_idx
      [] OTHER -> -1

RECURSIVE FirstToken(_, _)
\* the first token of the source text of node idx
FirstToken(ns, idx) ==
    LET n == ns[idx + 1] IN
    CASE n.kind \in {"I64", "Identifier"} -> n.token
      [] n.kind = "StringLiteral" -> n.token_idx
      [] n.kind = "Negation" -> n.operator
      [] n.kind = "ArithmeticOrLogical" -> FirstToken(ns, n.lhs)
      [] n.kind = "Grouped" -> n.lparen
      [] n.kind = "Block" -> n.lcurlybracket
      [] n.kind = "Return" -> n.return_kw
      [] n.kind = "If" -> n.if_kw
      [] n.kind = "StatExpression" -> FirstToken(ns, n.expression_node_idx)
      [] n.kind = "Definition" -> n.kw
      [] n.kind = "AnnoType" -> n.token_idx
      [] OTHER -> -1

\* C3: parse ends: it panics nowhere, and every iteration of the loop of parse_module
\* and of the loop of parse_block_expression either ends its loop or continues from a
\* strictly greater token index, never past the end of the token vector.
C3_ParseAdvances ==
    [][/\ pc = "parse" => pc' \in {"module", "done"}
       /\ pc = "module" =>
             /\ pc' \in {"module", "done"}
             /\ pc' = "module" =>
                   (next_token_idx' > next_token_idx /\ next_token_idx' <= Len(tokens))]_vars

C3_Witness ==
    /\ pc = "done"
    /\ module_stmts # <<>>
    /\ \E k \in 1..Len(nodes) :
          nodes[k].kind = "Block" /\ nodes[k].statements_node_indices # <<>>

\* C4: for any input, lexical and syntactic errors included, the node arena is not
\* empty after parse and its last node is the Module node.
C4_LastNodeIsModule ==
    pc = "done" => (nodes # <<>> /\ nodes[Len(nodes)].kind = "Module")

\* the (index of its FakeTokenForInvalid, message) pairs of the Invalid tokens, in order
ExpectedLexErrors(toks) ==
    LET invalid == SelectSeq([k \in 1..Len(toks) |-> k], LAMBDA k : toks[k].kind = "Invalid")
    IN  [j \in 1..Len(invalid) |-> <<invalid[j] - 2, toks[invalid[j]].msg>>]

\* C5: when the token vector has an Invalid token, parse_module does not run and the
\* error of the ast is one LexErrors leaf that lists every Invalid token, in order, as
\* the index of the FakeTokenForInvalid before it and its message; when it has none, no
\* LexErrors leaf occurs in the error.
C5_LexErrorsLeaf ==
    pc = "done" =>
        IF HasInvalid(tokens)
        THEN /\ nodes = <<>> /\ module_stmts = <<>> /\ error = Empty
             /\ \A k \in 1..Len(tokens) :
                   tokens[k].kind = "Invalid" =>
                       k > 1 /\ tokens[k - 1].kind = "FakeTokenForInvalid"
             /\ ast_error = <<new_single_error(LexErrors(ExpectedLexErrors(tokens)))>>
        ELSE ast_error = <<>> \/ ~ContainsLexErrors(ast_error[1])

C5_Witness ==
    /\ pc = "done"
    /\ Len(ExpectedLexErrors(tokens)) >= 2
    /\ ast_error # <<>>

RECURSIVE IsTrivia(_, _)
\* s holds only spaces, newlines, ';' and comments ('#' up to the next newline)
IsTrivia(s, in_comment) ==
    IF s = <<>> THEN TRUE
    ELSE IF in_comment THEN IsTrivia(Tail(s), Head(s) # LF)
    ELSE Head(s) \in {SP, LF, ";", "#"} /\ IsTrivia(Tail(s), Head(s) = "#")

\* C6: for an input made only of spaces, newlines (LF or CRLF), stand-alone ';' and
\* '#' comments, parse leaves a Module node with an empty statement list and no error.
C6_TriviaOnly ==
    (pc = "done" /\ IsTrivia(src, FALSE)) =>
        /\ nodes = <<[kind |-> "Module", statements_node_indices |-> <<>>]>>
        /\ ast_error = <<>>

C6_Witness ==
    /\ pc = "done"
    /\ IsTrivia(src, FALSE)
    /\ {SP, LF, ";", "#"} \subseteq {src[k] : k \in 1..Len(src)}
    /\ \E k \in 1..Len(tokens) : tokens[k].kind = "Comment"
    /\ \E k \in 1..Len(tokens) : tokens[k].kind = "SemiColon"

\* the precedence levels of the table
TablePrecedence(kind) ==
    CASE kind \in {"Star", "Slash", "Percent"} -> 6
      [] kind \in {"Plus", "Minus"} -> 5
      [] kind \in {"EqEq", "Ne", "Lt", "Le", "Gt", "Ge"} -> 1

\* primary (operator primary)* ';'
IsOperatorStatement(toks) ==
    /\ Len(toks) % 2 = 0
    /\ Len(toks) >= 2
    /\ \A i \in 0..(Len(toks) - 1) :
          IF i = Len(toks) - 1 THEN KindAt(toks, i) = "SemiColon"
          ELSE IF i % 2 = 0 THEN KindAt(toks, i) \in {"I64", "Identifier"}
          ELSE KindAt(toks, i) \in {"Star", "Slash", "Percent", "Plus", "Minus",
                                     "EqEq", "Ne", "Lt", "Le", "Gt", "Ge"}

RECURSIVE TableTree(_, _, _)
\* the tree the table gives the tokens lo..hi: its root is the last of the operators
\* of the lowest level, a leaf is <<token>>, an inner node <<left, operator, right>>
TableTree(toks, lo, hi) ==
    IF lo = hi THEN <<lo>>
    ELSE LET ops == {k \in lo..hi : (k - lo) % 2 = 1}
             lowest == CHOOSE l \in {TablePrecedence(KindAt(toks, k)) : k \in ops} :
                           \A k \in ops : l <= TablePrecedence(KindAt(toks, k))
             root == CHOOSE k \in ops :
                         /\ TablePrecedence(KindAt(toks, k)) = lowest
                         /\ \A j \in ops :
                               TablePrecedence(KindAt(toks, j)) = lowest => j <= k
         IN  <<TableTree(toks, lo, root - 1), root, TableTree(toks, root + 1, hi)>>

RECURSIVE TreeOf(_, _)
\* the tree under node idx of the arena, in the form of TableTree
TreeOf(ns, idx) ==
    IF ns[idx + 1].kind = "ArithmeticOrLogical"
    THEN <<TreeOf(ns, ns[idx + 1].lhs), ns[idx + 1].operator, TreeOf(ns, ns[idx + 1].rhs)>>
    ELSE <<ns[idx + 1].token>>

\* C7: a well-formed operator expression over integer and identifier primaries is
\* parsed into the tree of the precedence table: '*', '/', '%' (6) bind tighter than
\* '+', '-' (5), these tighter than the comparisons (1), and operators of the same
\* level group to the left.
C7_PrecedenceTree ==
    (pc = "done" /\ IsOperatorStatement(tokens)) =>
        /\ ast_error = <<>>
        /\ Len(module_stmts) = 1
        /\ nodes[module_stmts[1] + 1].kind = "StatExpression"
        /\ TreeOf(nodes, nodes[module_stmts[1] + 1].expression_node_idx)
              = TableTree(tokens, 0, Len(tokens) - 2)

C7_Witness ==
    /\ pc = "done"
    /\ IsOperatorStatement(tokens)
    /\ Len(tokens) = 6
    /\ KindAt(tokens, 1) = "Minus" /\ KindAt(tokens, 3) = "Star"
    /\ TreeOf(nodes, nodes[module_stmts[1] + 1].expression_node_idx)
          = <<<<0>>, 1, <<<<2>>, 3, <<4>>>>>>

\* the first token at or after index i that is neither Spaces nor NewLine, -1 if none
NextNonBlank(toks, i) ==
    LET rest == {k \in i..(Len(toks) - 1) : KindAt(toks, k) \notin {"Spaces", "NewLine"}}
    IN  IF rest = {} THEN -1 ELSE CHOOSE k \in rest : \A j \in rest : k <= j

\* the kinds of the tokens that are neither Spaces nor NewLine
SignificantKinds(toks) ==
    LET sig == SelectSeq(toks, LAMBDA x : x.kind \notin {"Spaces", "NewLine"})
    IN  [k \in 1..Len(sig) |-> sig[k].kind]

\* C8: for a '-' in primary position the next token that is neither Spaces nor
\* NewLine decides, whatever the spaces in between: an integer literal gives a Negation
\* node over it; a second '-' gives UnexpectedToken "'-' cannot be chained" with the
\* first dash as context and the second as error token; another token gives
\* UnexpectedToken "expected a number after '-'"; the end of input gives UnexpectedEof
\* with the dash as context.  And a - -0 is the subtraction of a negated literal.
C8_DashInPrimaryPosition ==
    ~HasInvalid(tokens) =>
        /\ \A d \in 0..(Len(tokens) - 1) :
              KindAt(tokens, d) = "Minus" =>
                  LET j == NextNonBlank(tokens, d + 1)
                      r == parse_primary(tokens, nodes, d)
                  IN  IF j = -1
                      THEN /\ r.kind = "Err"
                           /\ r.err = new_single_error(UnexpectedEof(
                                  [text |-> "expected a number after '{}'", arg |-> <<"-">>], d))
                      ELSE IF KindAt(tokens, j) = "I64"
                      THEN /\ r.kind = "Node"
                           /\ r.node = [kind |-> "Negation", operator |-> d,
                                        operand |-> Len(r.nodes) - 1]
                           /\ r.nodes = Append(nodes, [kind |-> "I64", token |-> j])
                           /\ r.next = j + 1
                      ELSE IF KindAt(tokens, j) = "Minus"
                      THEN /\ r.kind = "Err"
                           /\ r.err = new_single_error(UnexpectedToken(
                                  [text |-> "'{}' cannot be chained", arg |-> <<"-">>], d, j))
                      ELSE /\ r.kind = "Err"
                           /\ r.err = new_single_error(UnexpectedToken(
                                  [text |-> "expected a number after '{}'", arg |-> <<"-">>],
                                  d, j))
        /\ (/\ pc = "done"
            /\ SignificantKinds(tokens) = <<"Identifier", "Minus", "Minus", "I64", "SemiColon">>)
           => /\ ast_error = <<>>
              /\ Len(module_stmts) = 1
              /\ LET e == nodes[nodes[module_stmts[1] + 1].expression_node_idx + 1] IN
                  /\ e.kind = "ArithmeticOrLogical"
                  /\ KindAt(tokens, e.operator) = "Minus"
                  /\ nodes[e.lhs + 1].kind = "Identifier"
                  /\ nodes[e.rhs + 1].kind = "Negation"
                  /\ nodes[e.rhs + 1].operator > e.operator
                  /\ nodes[nodes[e.rhs + 1].operand + 1].kind = "I64"

C8_Witness ==
    /\ pc = "done"
    /\ SignificantKinds(tokens) = <<"Identifier", "Minus", "Minus", "I64", "SemiColon">>
    /\ \E k \in 1..Len(nodes) :
          nodes[k].kind = "Negation" /\ nodes[nodes[k].operand + 1].token > nodes[k].operator + 1

\* the first token at or after index i that is none of Spaces, NewLine and Comment
FirstSignificant(toks, i) ==
    LET rest == {k \in i..(Len(toks) - 1) :
                    KindAt(toks, k) \notin {"Spaces", "NewLine", "Comment"}}
    IN  IF rest = {} THEN <<>> ELSE <<CHOOSE k \in rest : \A j \in rest : k <= j>>

RECURSIVE Leaves(_)
\* the bare errors of an error
Leaves(e) ==
    IF e.kind = "Empty" THEN {}
    ELSE IF e.kind = "SingleParseError" THEN {e.e}
    ELSE UNION {Leaves(e.errors[k]) : k \in 1..Len(e.errors)}

\* C9: find_next_non_blank_token(i) is the first token at or after i whose kind is
\* none of Spaces, NewLine and Comment, or nothing when there is none, so that no
\* error of the grammar is reported at a comment.
C9_CommentsSkipped ==
    /\ \A i \in 0..Len(tokens) :
          find_next_non_blank_token(tokens, i) = FirstSignificant(tokens, i)
    /\ \A e \in Leaves(error) :
          e.t \in {"UnexpectedToken", "MismatchedParentheses"} =>
              KindAt(tokens, e.error_token_idx) # "Comment"

\* C10: in parse_module a failed statement does not end the loop: its error is added
\* after the errors collected so far, no statement is added, and the loop goes on at
\* the recovery index; a statement parsed after that is appended to the statement
\* list; the statements and the errors are in source order, and the Module node and
\* the error of the ast hold them once the loop has ended.
C10_ModuleRecovery ==
    /\ [][pc = "module" =>
            LET r == parse_statement(tokens, nodes, next_token_idx) IN
            /\ r.kind = "Err" =>
                  /\ pc' = "module"
                  /\ ErrorList(error') = Append(ErrorList(error), r.err)
                  /\ module_stmts' = module_stmts
                  /\ next_token_idx' = find_recovery_idx(tokens, next_token_idx)
            /\ r.kind = "Node" =>
                  /\ pc' = "module"
                  /\ module_stmts' = Append(module_stmts, Len(nodes') - 1)
                  /\ FirstToken(nodes', Len(nodes') - 1) >= next_token_idx
                  /\ next_token_idx' > FirstToken(nodes', Len(nodes') - 1)
                  /\ error' = error]_vars
    /\ [](pc \in {"module", "done"} /\ ~HasInvalid(tokens) =>
            /\ \A j \in 1..Len(module_stmts) : \A k \in 1..Len(module_stmts) :
                  j < k => FirstToken(nodes, module_stmts[j]) < FirstToken(nodes, module_stmts[k])
            /\ \A j \in 1..Len(ErrorList(error)) : \A k \in 1..Len(ErrorList(error)) :
                  j < k => ErrorToken(LeafOf(ErrorList(error)[j]))
                              <= ErrorToken(LeafOf(ErrorList(error)[k]))
            /\ pc = "done" =>
                  /\ nodes[Len(nodes)] =
                         [kind |-> "Module", statements_node_indices |-> module_stmts]
                  /\ ast_error = IF error = Empty THEN <<>> ELSE <<error>>)

---------------------------------------------------------------------------
(* Properties of blocks. *)

RECURSIVE CollectedInBlock(_, _, _)
\* the errors the loop of parse_block_expression has collected from the statements
\* between token index next and the '}' that ends its block, oldest first
CollectedInBlock(toks, next, collected) ==
    LET f == find_next_non_blank_token(toks, next) IN
    IF f # <<>> /\ KindAt(toks, f[1]) = "RCurlyBrace" THEN collected
    ELSE LET r == parse_statement(toks, <<>>, next) IN
         IF r.kind = "Node" /\ r.next > next
         THEN CollectedInBlock(toks, r.next, collected)
         ELSE IF r.kind = "Err" /\ find_recovery_idx(toks, next) > next
         THEN CollectedInBlock(toks, find_recovery_idx(toks, next), Append(collected, r.err))
         ELSE collected

RECURSIVE AllErrors(_)
\* an error and every error nested in it
AllErrors(e) ==
    IF e.kind \in {"Empty", "SingleParseError"} THEN {e}
    ELSE {e} \cup UNION {AllErrors(e.errors[k]) : k \in 1..Len(e.errors)}

\* C11: the error of a statement that fails inside a block is part of the error of the
\* ast after parse, also when the '}' of the block is found afterwards: for every Block
\* node of the arena, each error raised by a statement between its braces occurs in
\* the error of the ast.
C11_BlockErrorsCollected ==
    (pc = "done" /\ ~HasInvalid(tokens)) =>
        \A k \in 1..Len(nodes) :
            nodes[k].kind = "Block" =>
                LET raised == CollectedInBlock(tokens, nodes[k].lcurlybracket + 1, <<>>) IN
                \A j \in 1..Len(raised) :
                    ast_error # <<>> /\ raised[j] \in AllErrors(ast_error[1])

---------------------------------------------------------------------------
(* Properties of string literals. *)

RECURSIVE StringBody(_, _, _)
\* the body of a string literal read from grapheme i on, escapes consumed left to
\* right: <<index of the closing quote, decoded content>> when ordinary graphemes and
\* supported escapes are followed by an unescaped quote, <<>> otherwise
StringBody(s, i, content) ==
    LET g == GetStr(s, i) IN
    IF g = NoStr THEN <<>>
    ELSE IF g = DQ THEN <<i, content>>
    ELSE IF g # BS THEN StringBody(s, i + 1, Append(content, Lit(g)))
    ELSE IF GetStr(s, i + 1) = "u"
    THEN LET r == take_unicode(s, 0, i + 2) IN
         IF r.ok THEN StringBody(s, r.idx + 1, content \o r.content) ELSE <<>>
    ELSE IF GetStr(s, i + 1) \in DOMAIN escaped_chars
    THEN StringBody(s, i + 2, Append(content, Lit(escaped_chars[GetStr(s, i + 1)])))
    ELSE <<>>

\* C12: a string literal ends at its first unescaped quote, escapes being consumed
\* left to right: when the lexer is at an opening quote that ordinary graphemes and
\* supported escapes and then such a quote follow, its iteration pushes one
\* StringLiteral token from the opening to the closing quote with the decoded body as
\* content and goes on after the closing quote, whatever follows it.
C12_StringEndsAtUnescapedQuote ==
    [][(pc = "lex" /\ GetStr(src, uc_idx) = DQ /\ StringBody(src, uc_idx + 1, <<>>) # <<>>) =>
         LET body == StringBody(src, uc_idx + 1, <<>>) IN
         /\ tokens' = Append(tokens, [Token("StringLiteral", uc_idx, body[1])
                                         EXCEPT !.content = body[2]])
         /\ uc_idx' = body[1] + 1]_vars

---------------------------------------------------------------------------
(* Properties of the renderer. *)

\* get_diags has been called: the caller did not panic before the call
GetDiagsCalled ==
    /\ diag_call # <<>>
    /\ diag_call[1].ctx_token_idx # <<>> =>
          TokenByteSpan(src, tokens, diag_call[1].ctx_token_idx[1]) # <<>>

\* the context start byte index get_diags was called with
EntryCtx ==
    IF diag_call[1].ctx_token_idx = <<>> THEN <<>>
    ELSE <<TokenByteSpan(src, tokens, diag_call[1].ctx_token_idx[1])[1].start>>

\* the error byte span get_diags was called with
EntryErr ==
    IF diag_call[1].error_token_idx = <<>> THEN <<>>
    ELSE TokenByteSpan(src, tokens, diag_call[1].error_token_idx[1])

\* an error span, a context, or a context followed by an error span, all of them
\* inside the source
InRangeEntry ==
    /\ EntryCtx # <<>> \/ EntryErr # <<>>
    /\ EntryCtx # <<>> => (EntryCtx[1] >= 0 /\ EntryCtx[1] < bytes_len(src))
    /\ EntryErr # <<>> =>
          /\ 0 <= EntryErr[1].start
          /\ EntryErr[1].start <= EntryErr[1].inclusive_end
          /\ EntryErr[1].inclusive_end < bytes_len(src)
    /\ (EntryCtx # <<>> /\ EntryErr # <<>>) => EntryCtx[1] <= EntryErr[1].start

\* C13: get_diags does not panic when what it is given lies inside the source, and
\* when it is given neither a context nor an error span it returns no frame and does
\* not fail.
C13_RendererNeverPanics ==
    GetDiagsCalled =>
        /\ InRangeEntry => pc # "panic"
        /\ (EntryCtx = <<>> /\ EntryErr = <<>>) =>
              (pc # "panic" /\ (pc = "rendered" => diags = <<>>))

\* the 1-based number of the line byte b lies on
LineOf(s, b) ==
    1 + Cardinality({k \in 1..b : raw_content(s)[k] = LF})

\* the bytes of the line of byte b that come before b
LinePrefix(s, b) ==
    LET before == {k \in 1..b : raw_content(s)[k] = LF}
        from == IF before = {} THEN 1
                ELSE 1 + (CHOOSE k \in before : \A j \in before : j <= k)
    IN  SubSeq(raw_content(s), from, b)

\* the byte the rendering still has to start from
RenderStart ==
    IF ctx_start_byte_idx # <<>> THEN ctx_start_byte_idx[1]
    ELSE IF error_byte_span # <<>> THEN error_byte_span[1].start
    ELSE bytes_len(src)

\* C14: called with a context and an error span inside the source, the context not
\* after the start of the error, get_diags ends: every iteration that goes on starts
\* from a later byte.  It returns one frame for each line from the line of the start
\* to the line of the end of the error span (to the last line for a context alone),
\* the line numbers 1-based and consecutive, and on the line where the error begins
\* the leading and the context columns end where the error columns begin.
C14_OneFramePerLine ==
    /\ [][(pc = "diags" /\ GetDiagsCalled /\ InRangeEntry) =>
             /\ pc' \in {"diags", "rendered"}
             /\ pc' = "diags" =>
                   (RenderStart' > RenderStart /\ RenderStart' <= bytes_len(src))]_vars
    /\ []((pc = "rendered" /\ GetDiagsCalled /\ InRangeEntry) =>
             LET start == IF EntryCtx # <<>> THEN EntryCtx[1] ELSE EntryErr[1].start
                 first == LineOf(src, start)
                 last == IF EntryErr # <<>> THEN LineOf(src, EntryErr[1].inclusive_end)
                         ELSE LineOf(src, bytes_len(src) - 1)
             IN  /\ Len(diags) = last - first + 1
                 /\ \A k \in 1..Len(diags) : diags[k].line_nr = first + k - 1
                 /\ diags[1].leading_width = width(LinePrefix(src, start))
                 /\ EntryErr # <<>> =>
                       LET f == diags[LineOf(src, EntryErr[1].start) - first + 1] IN
                       /\ f.leading_width + f.ctx_width
                             = width(LinePrefix(src, EntryErr[1].start))
                       /\ f.error_width > 0 \/ raw_content(src)[EntryErr[1].start + 1] = LF)

C14_Witness ==
    /\ pc = "rendered"
    /\ GetDiagsCalled
    /\ InRangeEntry
    /\ EntryCtx # <<>> /\ EntryErr # <<>>
    /\ EntryCtx[1] < EntryErr[1].start
    /\ Len(diags) = 3
    /\ diags[3].ctx_width > 0

---------------------------------------------------------------------------
(* Properties of the evaluator. *)

RECURSIVE IsArithmetic(_, _, _)
\* the node is an expression of integer literals, + - * / %, grouping and unary minus
IsArithmetic(ns, toks, idx) ==
    LET node == ns[idx + 1] IN
    CASE node.kind = "I64" -> TRUE
      [] node.kind = "Negation" -> ns[node.operand + 1].kind = "I64"
      [] node.kind = "Grouped" -> IsArithmetic(ns, toks, node.expression_node_idx)
      [] node.kind = "ArithmeticOrLogical" ->
            /\ KindAt(toks, node.operator) \in {"Plus", "Minus", "Star", "Slash", "Percent"}
            /\ IsArithmetic(ns, toks, node.lhs)
            /\ IsArithmetic(ns, toks, node.rhs)
      [] OTHER -> FALSE

\* the value of the digits of a literal, of any size
LiteralValue(s, toks, node) ==
    LET text == TokenStr(s, toks, node.token) IN
    Signed(FALSE, NatOfDigits([k \in 1..Len(text) |-> HexDigitValue(text[k])]))

RECURSIVE ExactValue(_, _, _, _)
\* the exact value of an arithmetic expression, as long as every value on the way
\* fits an i64 and no divisor is zero: a signed literal counts as one value, and a
\* remainder overflows when its division does
ExactValue(ns, toks, s, idx) ==
    LET node == ns[idx + 1]
        Fit(v) == [ok |-> InI64(v), v |-> v]
        Fail == [ok |-> FALSE, v |-> Signed(FALSE, <<>>)]
    IN
    CASE node.kind = "I64" -> Fit(LiteralValue(s, toks, node))
      [] node.kind = "Negation" -> Fit(IntNeg(LiteralValue(s, toks, ns[node.operand + 1])))
      [] node.kind = "Grouped" -> ExactValue(ns, toks, s, node.expression_node_idx)
      [] node.kind = "ArithmeticOrLogical" ->
            LET l == ExactValue(ns, toks, s, node.lhs)
                r == ExactValue(ns, toks, s, node.rhs)
                k == KindAt(toks, node.operator)
            IN  IF ~l.ok \/ ~r.ok THEN Fail
                ELSE CASE k = "Plus" -> Fit(IntAdd(l.v, r.v))
                       [] k = "Minus" -> Fit(IntSub(l.v, r.v))
                       [] k = "Star" -> Fit(IntMul(l.v, r.v))
                       [] k \in {"Slash", "Percent"} ->
                            IF r.v.mag = <<>> \/ ~InI64(IntDiv(l.v, r.v)) THEN Fail
                            ELSE IF k = "Slash" THEN Fit(IntDiv(l.v, r.v))
                            ELSE Fit(IntRem(l.v, r.v))

\* the evaluator has visited a module whose first statement is an arithmetic expression
EvaluatedArithmetic ==
    /\ visited # <<>>
    /\ nodes # <<>>
    /\ nodes[Len(nodes)].kind = "Module"
    /\ nodes[Len(nodes)].statements_node_indices # <<>>
    /\ LET stat == nodes[nodes[Len(nodes)].statements_node_indices[1] + 1] IN
        /\ stat.kind = "StatExpression"
        /\ IsArithmetic(nodes, tokens, stat.expression_node_idx)

\* the expression of the first statement of the module
FirstExpression == nodes[nodes[Len(nodes)].statements_node_indices[1] + 1].expression_node_idx

\* C15: the evaluator on an arithmetic expression of integer literals, + - * / %,
\* grouping and unary minus returns the value of checked 64-bit signed arithmetic: an
\* error when a value on the way does not fit an i64 or a divisor is zero, else the
\* exact value, and it does not panic.
C15_CheckedArithmetic ==
    EvaluatedArithmetic =>
        LET exact == ExactValue(nodes, tokens, src, FirstExpression) IN
        /\ visited[1].kind # "Panic"
        /\ exact.ok => visited[1] = EvalOk(<<exact.v>>)
        /\ ~exact.ok => visited[1].kind = "Err"

\* an operation inside the expression overflows, on operands that fit, and the evaluator
\* returns an error
C15_Witness ==
    /\ EvaluatedArithmetic
    /\ pc = "visited"
    /\ visited[1].kind = "Err"
    /\ \E k \in 0..(Len(nodes) - 1) :
        /\ k # FirstExpression
        /\ nodes[k + 1].kind = "ArithmeticOrLogical"
        /\ IsArithmetic(nodes, tokens, k)
        /\ ExactValue(nodes, tokens, src, nodes[k + 1].lhs).ok
        /\ ExactValue(nodes, tokens, src, nodes[k + 1].rhs).ok
        /\ ~ExactValue(nodes, tokens, src, k).ok

---------------------------------------------------------------------------
(* Properties of the printer. *)

\* print(parse(text)): the text is read as a compilation unit, parsed and printed
PrintOfParse(text) ==
    LET s == from_string(text)
        ast == parse(s)
    IN  IF ast.kind # "Ast" THEN PrintPanic
        ELSE accept_printer(ast.nodes, get_tokens(s), s)

\* the printer has printed the ast of a source that parses without error
PrintedWithoutError == pc = "visited" /\ visited # <<>> /\ ast_error = <<>>

\* C16: for every source that parses without error, string literals, grouped
\* expressions and if/else expressions included, the printed text is printed again as
\* itself: print(parse(print(parse(src)))) == print(parse(src)).
C16_PrinterRoundTrip ==
    PrintedWithoutError => PrintOfParse(visited[1].str) = visited[1]

\* the same of the sources without a string literal
C16_RoundTripWithoutStrings ==
    (PrintedWithoutError /\ \A k \in 1..Len(tokens) : tokens[k].kind # "StringLiteral")
        => PrintOfParse(visited[1].str) = visited[1]

---------------------------------------------------------------------------
(* Properties of statements. *)

\* the first token of a statement: not a blank, a ';' or a comment
IsStatementStart(toks, i) == KindAt(toks, i) \notin Blank \cup {"SemiColon", "Comment"}

\* Some(the token index after the last expression of the statement that starts at
\* token i), when the statement is complete but for its ';', else None
StatementBodyEnd(toks, i) ==
    IF KindAt(toks, i) \in {"KwLet", "KwVar"}
    THEN LET lhs == parse_expression(toks, <<>>, i + 1, 0) IN
         IF lhs.kind # "Node" THEN <<>>
         ELSE LET c == find_next_non_blank_token(toks, lhs.next)
                  typed == c # <<>> /\ KindAt(toks, c[1]) = "Colon"
                  t == parse_type_from_colon(toks, <<>>, IF typed THEN c[1] ELSE 0)
              IN  IF typed /\ t.kind # "Node" THEN <<>>
                  ELSE LET eq == find_next_non_blank_token(toks, IF typed THEN t.next
                                                                 ELSE lhs.next)
                       IN  IF eq = <<>> \/ KindAt(toks, eq[1]) # "Eq" THEN <<>>
                           ELSE LET rhs == parse_expression(toks, <<>>, eq[1] + 1, 0) IN
                                IF rhs.kind # "Node" THEN <<>> ELSE <<rhs.next>>
    ELSE LET e == parse_expression(toks, <<>>, i, 0) IN
         IF e.kind # "Node" THEN <<>> ELSE <<e.next>>

\* the statement that starts at token i is complete and is not followed by ';'
Unterminated(toks, i) ==
    /\ IsStatementStart(toks, i)
    /\ StatementBodyEnd(toks, i) # <<>>
    /\ LET f == find_next_non_blank_token(toks, StatementBodyEnd(toks, i)[1]) IN
        f = <<>> \/ KindAt(toks, f[1]) # "SemiColon"

\* C17: a statement must end with ';': when the first non-blank token after a complete
\* expression statement or definition is not ';', the statement fails with the
\* UnexpectedToken "statement must end with ';'" whose context is the first token of
\* the statement and whose error token is that token; when no non-blank token follows,
\* it fails with the UnexpectedEof of that message at the first token of the statement.
C17_StatementEndsWithSemiColon ==
    pc # "lex" =>
        \A i \in 0..(Len(tokens) - 1) :
            Unterminated(tokens, i) =>
                LET f == find_next_non_blank_token(tokens, StatementBodyEnd(tokens, i)[1])
                    r == parse_statement(tokens, <<>>, i)
                IN  /\ r.kind = "Err"
                    /\ r.err = new_single_error(
                                   IF f = <<>> THEN UnexpectedEof(StatementEndMsg, i)
                                   ELSE UnexpectedToken(StatementEndMsg, i, f[1]))

\* parse has recorded the error of an expression statement that another token follows,
\* some tokens after its first one
C17_Witness ==
    /\ pc = "done"
    /\ \E i \in 0..(Len(tokens) - 1) :
        /\ Unterminated(tokens, i)
        /\ KindAt(tokens, i) \notin {"KwLet", "KwVar"}
        /\ LET f == find_next_non_blank_token(tokens, StatementBodyEnd(tokens, i)[1]) IN
            /\ f # <<>>
            /\ f[1] > i + 1
            /\ ast_error # <<>>
            /\ UnexpectedToken(StatementEndMsg, i, f[1]) \in Leaves(ast_error[1])

---------------------------------------------------------------------------
(* Properties of the arena. *)

Indices(option) == {option[k] : k \in 1..Len(option)}

\* the node indices stored in a node
EmbeddedIndices(node) ==
    CASE node.kind = "ArithmeticOrLogical" -> {node.lhs, node.rhs}
      [] node.kind = "Negation" -> {node.operand}
      [] node.kind = "Grouped" -> {node.expression_node_idx}
      [] node.kind = "If" ->
            {node.condition_node_idx, node.then_block_node_idx}
            \cup Indices(node.else_block_node_idx) \cup Indices(node.if_node_idx)
      [] node.kind = "Definition" ->
            {node.lhs_expression_node_idx, node.rhs_expression_node_idx}
            \cup Indices(node.type_node_idx)
      [] node.kind = "StatExpression" -> {node.expression_node_idx}
      [] node.kind = "Return" -> Indices(node.expression_node_idx)
      [] node.kind \in {"Block", "Module"} -> Indices(node.statements_node_indices)
      [] OTHER -> {}

\* C18: in the arena, every node index stored in a node (operands, grouped expression,
\* condition, blocks, else-if, lhs, type and rhs of a definition, expression of a
\* statement, statements of a block and of the module) is less than the index of the
\* node that stores it.
C18_EmbeddedIndicesBelowParent ==
    \A k \in 0..(Len(nodes) - 1) :
        \A idx \in EmbeddedIndices(nodes[k + 1]) : idx >= 0 /\ idx < k

\* parse has returned an arena without error with an if/else, stored with its condition
\* and its two blocks, in a statement of the module
C18_Witness ==
    /\ pc = "done"
    /\ ast_error = <<>>
    /\ \E k \in 1..Len(nodes) :
        /\ nodes[k].kind = "If"
        /\ nodes[k].else_block_node_idx # <<>>
        /\ nodes[nodes[k].else_block_node_idx[1] + 1].kind = "Block"
        /\ \E j \in 1..Len(nodes) :
            nodes[j].kind = "StatExpression" /\ nodes[j].expression_node_idx = k - 1

---------------------------------------------------------------------------
(* Properties of invalid tokens. *)

\* C19: in the token stream, the Invalid token at index i comes right after a
\* FakeTokenForInvalid token, at index i - 1, which is the index the Invalid token
\* stores, and every FakeTokenForInvalid token is followed at once by its Invalid token.
C19_FakeThenInvalid ==
    \A k \in 1..Len(tokens) :
        /\ tokens[k].kind = "Invalid" =>
              /\ k > 1
              /\ tokens[k - 1].kind = "FakeTokenForInvalid"
              /\ tokens[k].fake = <<k - 2>>
        /\ tokens[k].kind = "FakeTokenForInvalid" =>
              /\ k < Len(tokens)
              /\ tokens[k + 1].kind = "Invalid"
              /\ tokens[k + 1].fake = <<k - 1>>

\* get_tokens has returned a stream with two Invalid tokens, the second one after other
\* tokens
C19_Witness ==
    /\ pc = "done"
    /\ \E j, k \in 1..Len(tokens) :
        /\ j + 2 < k
        /\ tokens[j].kind = "Invalid"
        /\ tokens[k].kind = "Invalid"

---------------------------------------------------------------------------
(* Properties of the recovery index. *)

\* the number of tokens of a kind from index a to index b
CountKind(toks, a, b, kind) == Cardinality({j \in a..b : KindAt(toks, j) = kind})

\* the indices of the '}' tokens from index a on at which as many '{' as '}' have been
\* met since a
ClosingBraces(toks, a) ==
    {j \in a..(Len(toks) - 1) :
        /\ KindAt(toks, j) = "RCurlyBrace"
        /\ CountKind(toks, a, j, "LCurlyBrace") = CountKind(toks, a, j, "RCurlyBrace")}

\* the '}' that brings the count of open braces back to zero: the first of them
MatchingBrace(toks, a) == CHOOSE j \in ClosingBraces(toks, a) : \A k \in ClosingBraces(toks, a) : j <= k

\* C20: when a statement fails whose first non-blank token at or after the index given
\* to find_recovery_idx is 'if' or '{', and a '}' brings the count of open braces back
\* to zero: if the next non-blank token after that '}' is 'else', recovery starts again
\* at the 'else'; otherwise parsing goes on right after that '}', and no other token is
\* skipped.
C20_RecoveryAfterBlock ==
    [][(/\ pc = "module"
        /\ parse_statement(tokens, nodes, next_token_idx).kind = "Err"
        /\ LET f == find_next_non_blank_token(tokens, next_token_idx) IN
            /\ f # <<>>
            /\ KindAt(tokens, f[1]) \in {"KwIf", "LCurlyBrace"}
            /\ ClosingBraces(tokens, f[1]) # {})
       => LET f == find_next_non_blank_token(tokens, next_token_idx)
              rcurlybrace == MatchingBrace(tokens, f[1])
              after == find_next_non_blank_token(tokens, rcurlybrace + 1)
          IN  IF after # <<>> /\ KindAt(tokens, after[1]) = "KwElse"
              THEN next_token_idx' = find_recovery_idx(tokens, after[1])
              ELSE find_next_non_blank_token(tokens, next_token_idx') = after]_vars

\* the '{' tokens from index a on that have a matching '}', with that '}'
BalancedGroups(toks, a) ==
    {<<l, MatchingBrace(toks, l)>> :
        l \in {j \in a..(Len(toks) - 1) :
                  KindAt(toks, j) = "LCurlyBrace" /\ ClosingBraces(toks, j) # {}}}

\* the ';' tokens from index a on that lie in no balanced '{ ... }' group opened at or
\* after a
TopLevelSemiColons(toks, a) ==
    {j \in a..(Len(toks) - 1) :
        /\ KindAt(toks, j) = "SemiColon"
        /\ \A g \in BalancedGroups(toks, a) : ~(g[1] < j /\ j < g[2])}

\* the index just after the first of them, the index past the end when there is none
AfterTopLevelSemiColon(toks, a) ==
    IF TopLevelSemiColons(toks, a) = {} THEN Len(toks)
    ELSE (CHOOSE j \in TopLevelSemiColons(toks, a) :
              \A k \in TopLevelSemiColons(toks, a) : j <= k) + 1

\* C21: when a statement fails and the first non-blank token at or after the index
\* given to find_recovery_idx is neither 'if' nor '{', parsing goes on just after the
\* next ';' that is not inside a balanced '{ ... }' group, the groups before it and
\* their closing '}' being skipped, and at the index past the end when there is no such
\* ';'.
C21_RecoveryAfterSemiColon ==
    [][(/\ pc = "module"
        /\ parse_statement(tokens, nodes, next_token_idx).kind = "Err"
        /\ LET f == find_next_non_blank_token(tokens, next_token_idx) IN
            /\ f # <<>>
            /\ KindAt(tokens, f[1]) \notin {"KwIf", "LCurlyBrace"})
       => LET f == find_next_non_blank_token(tokens, next_token_idx) IN
          next_token_idx' = AfterTopLevelSemiColon(tokens, f[1])]_vars

\* the part of C21 that holds: with no brace at or after the failed statement, parsing
\* goes on just after the next ';', at the index past the end when there is none
C21_RecoveryWithoutBraces ==
    [][(/\ pc = "module"
        /\ parse_statement(tokens, nodes, next_token_idx).kind = "Err"
        /\ LET f == find_next_non_blank_token(tokens, next_token_idx) IN
            /\ f # <<>>
            /\ \A j \in f[1]..(Len(tokens) - 1) :
                  KindAt(tokens, j) \notin {"KwIf", "LCurlyBrace", "RCurlyBrace"})
       => LET f == find_next_non_blank_token(tokens, next_token_idx) IN
          next_token_idx' = AfterTopLevelSemiColon(tokens, f[1])]_vars

---------------------------------------------------------------------------
(* Properties of the recovery of the lexer. *)

RECURSIVE OwnClosingQuote(_, _)
\* the closing quote of the string literal whose body starts at grapheme i: the first
\* quote that no backslash before it consumes, a backslash consuming the grapheme
\* after it; <<>> when the input ends first
OwnClosingQuote(s, i) ==
    LET g == GetStr(s, i) IN
    IF g = NoStr THEN <<>>
    ELSE IF g = DQ THEN <<i>>
    ELSE IF g = BS THEN OwnClosingQuote(s, i + 2)
    ELSE OwnClosingQuote(s, i + 1)

\* the iteration has pushed a FakeTokenForInvalid token and an Invalid token, the
\* latter starting at the opening quote at index i, and nothing else
PushedStringError(toks, after, i) ==
    /\ Len(after) = Len(toks) + 2
    /\ SubSeq(after, 1, Len(toks)) = toks
    /\ after[Len(toks) + 1].kind = "FakeTokenForInvalid"
    /\ after[Len(toks) + 2].kind = "Invalid"
    /\ after[Len(toks) + 2].start = i

\* the first half of C22: a literal with a closing quote and an error before it
C22_ResumeAfterClosingQuote ==
    [][(/\ pc = "lex"
        /\ GetStr(src, uc_idx) = DQ
        /\ OwnClosingQuote(src, uc_idx + 1) # <<>>
        /\ StringBody(src, uc_idx + 1, <<>>) = <<>>)
       => /\ PushedStringError(tokens, tokens', uc_idx)
          /\ uc_idx' = OwnClosingQuote(src, uc_idx + 1)[1] + 1]_vars

\* the second half of C22: a literal without a closing quote
C22_ResumeAtEndOfInput ==
    [][(/\ pc = "lex"
        /\ GetStr(src, uc_idx) = DQ
        /\ OwnClosingQuote(src, uc_idx + 1) = <<>>)
       => /\ PushedStringError(tokens, tokens', uc_idx)
          /\ uc_idx' = Len(src)]_vars

\* C22: after a lexical error inside a string literal that has a closing quote, the
\* lexer has pushed the two tokens of the error and goes on at the grapheme right after
\* that closing quote, the first quote after the opening one that no escape consumes;
\* after a string literal without a closing quote it goes on at the end of the input,
\* the Invalid token being the last token.
C22_StringErrorRecovery ==
    [][(pc = "lex" /\ GetStr(src, uc_idx) = DQ) =>
          IF OwnClosingQuote(src, uc_idx + 1) = <<>>
          THEN /\ PushedStringError(tokens, tokens', uc_idx)
               /\ uc_idx' = Len(src)
          ELSE StringBody(src, uc_idx + 1, <<>>) = <<>> =>
                  /\ PushedStringError(tokens, tokens', uc_idx)
                  /\ uc_idx' = OwnClosingQuote(src, uc_idx + 1)[1] + 1]_vars

\* the part of C22 that holds: when no quote of the literal comes after a backslash and
\* no newline follows the opening quote, the lexer goes on after the closing quote of a
\* literal with an error, and at the end of the input when there is no closing quote
C22_RecoveryWithoutEscapedQuotes ==
    [][(/\ pc = "lex"
        /\ GetStr(src, uc_idx) = DQ
        /\ StringBody(src, uc_idx + 1, <<>>) = <<>>
        /\ \A j \in (uc_idx + 1)..(Len(src) - 1) :
              /\ GetStr(src, j) # LF
              /\ GetStr(src, j) = DQ => GetStr(src, j - 1) # BS)
       => /\ PushedStringError(tokens, tokens', uc_idx)
          /\ uc_idx' = IF OwnClosingQuote(src, uc_idx + 1) = <<>> THEN Len(src)
                       ELSE OwnClosingQuote(src, uc_idx + 1)[1] + 1]_vars

---------------------------------------------------------------------------
(* Properties of escapes. *)

\* the first grapheme after index l that is not an ASCII hex digit, the end of the
\* input counting as one
FirstNonHex(s, l) ==
    CHOOSE j \in (l + 1)..Len(s) :
        /\ GetStr(s, j) \notin AsciiHexDigits
        /\ \A k \in (l + 1)..(j - 1) : GetStr(s, k) \in AsciiHexDigits

\* the error the checks of a '\u' escape give, in their order, for the escape whose
\* 'u' is at index u of s: <<anchor, message>>, or <<>> when every check passes or the
\* input ends among the hex digits
UnicodeEscapeError(s, u) ==
    LET l == u + 1
        j == FirstNonHex(s, l)
    IN  IF GetStr(s, l) # "{"
        THEN <<l, [text |-> "unicode should be in the format of \\u{...}", arg |-> <<>>]>>
        ELSE IF GetStr(s, j) = NoStr THEN <<>>
        ELSE IF GetStr(s, j) # "}"
        THEN <<j, [text |-> "only hex numbers are allowed in unicode sequence, '{}' is not allowed",
                   arg |-> <<GetStr(s, j)>>]>>
        ELSE IF j = l + 1
        THEN <<j, [text |-> "unicode should be in the format of \\u{...}, cannot be empty between '{}'",
                   arg |-> <<>>]>>
        ELSE IF ~IsUnicodeScalar(HexValue(GetSpanStr(s, l + 1, j - 1), 0))
        THEN <<l + 1, [text |-> "'{}' is not a valid unicode code point",
                       arg |-> GetSpanStr(s, l + 1, j - 1)]>>
        ELSE <<>>

\* C23: for a backslash inside a string literal that 'u' follows, the first failing
\* check of: a '{' follows; every grapheme before '}' is an ASCII hex digit; something
\* is between '{' and '}'; the hex value is a Unicode scalar, decides the error, which
\* is anchored at the grapheme after 'u', at the offending grapheme, at '}', at the
\* first hex digit; for a backslash that a grapheme other than \ " n r t 0 u follows,
\* the error is "invalid escape char", anchored at that grapheme.
C23_EscapeValidation ==
    \A b \in 0..(Len(src) - 2) :
        GetStr(src, b) = BS =>
            LET c == GetStr(src, b + 1)
                r == take_string_loop(src, b, FALSE, <<>>, Len(src), 0)
            IN  IF c = "u"
                THEN LET e == UnicodeEscapeError(src, b + 1) IN
                     /\ e # <<>> => (~r.ok /\ r.error_uc_idx = e[1] /\ r.msg = e[2])
                     /\ (e = <<>> /\ GetStr(src, FirstNonHex(src, b + 2)) = "}") =>
                            take_unicode(src, Len(src), b + 2).ok
                ELSE IF c \in {BS, DQ, "n", "r", "t", "0"}
                THEN r.ok \/ r.error_uc_idx > b + 1 \/ r.error_uc_idx = 0
                ELSE /\ ~r.ok
                     /\ r.error_uc_idx = b + 1
                     /\ r.msg = [text |-> "invalid escape char '{}'", arg |-> <<c>>]

\* get_tokens has reported a hex value that is no Unicode scalar, anchored at its first
\* digit, and has gone on after the closing quote of the literal
C23_Witness ==
    /\ pc = "done"
    /\ \E k \in 2..(Len(tokens) - 1) :
          /\ tokens[k].kind = "Invalid"
          /\ tokens[k].msg.text = "'{}' is not a valid unicode code point"
          /\ tokens[k - 1].start = 4
          /\ GetStr(src, 3) = "{"
          /\ GetStr(src, 4) = "d"

---------------------------------------------------------------------------
(* Properties of parse_block_expression. *)

RECURSIVE BlockEnd(_, _)
\* the first '}' the loop of parse_block_expression meets at a statement boundary, the
\* boundaries being the token after '{', the token after each statement parsed and
\* each recovery index: <<its index>>, or <<>> when the input ends first
BlockEnd(toks, next) ==
    LET f == find_next_non_blank_token(toks, next) IN
    IF f # <<>> /\ KindAt(toks, f[1]) = "RCurlyBrace" THEN f
    ELSE LET r == parse_statement(toks, <<>>, next) IN
         IF r.kind = "Node" /\ r.next > next THEN BlockEnd(toks, r.next)
         ELSE IF r.kind = "Err" /\ find_recovery_idx(toks, next) > next
         THEN BlockEnd(toks, find_recovery_idx(toks, next))
         ELSE <<>>

NoMatchingRCurlyBrace(lcurlybrace_token_idx) ==
    new_single_error(UnexpectedEof([text |-> "no matching '{}'", arg |-> <<"}">>],
                                   lcurlybrace_token_idx))

\* C24: parse_block_expression, started at a '{', returns a Block node for that '{'
\* whose closing brace is the first '}' at a statement boundary, the matching '}' when
\* no statement of the block fails, and goes on after it; when the input ends before
\* such a '}', it fails with the errors collected in the block followed by
\* UnexpectedEof "no matching '}'" with the '{' as context.  Checked for every '{' of
\* the token vector, on the arena parse has left.
C24_BlockEndsAtRCurlyBrace ==
    (pc = "done" /\ ~HasInvalid(tokens)) =>
        \A l \in 0..(Len(tokens) - 1) :
            KindAt(tokens, l) = "LCurlyBrace" =>
                LET r == parse_block_expression(tokens, nodes, l)
                    end == BlockEnd(tokens, l + 1)
                    collected == CollectedInBlock(tokens, l + 1, <<>>)
                IN  IF end # <<>>
                    THEN /\ r.kind = "Node"
                         /\ r.node.kind = "Block"
                         /\ r.node.lcurlybracket = l
                         /\ r.node.rcurlybracket = end[1]
                         /\ r.next = end[1] + 1
                         /\ collected = <<>> => end[1] = MatchingBrace(tokens, l)
                         /\ \A k \in 1..Len(r.node.statements_node_indices) :
                               LET t == FirstToken(r.nodes, r.node.statements_node_indices[k])
                               IN  l < t /\ t < end[1]
                    ELSE /\ r.kind = "Err"
                         /\ ErrorList(r.err) = Append(collected, NoMatchingRCurlyBrace(l))

\* parse has met a block that the input ends in, after a statement of it has failed:
\* the error of the ast holds the error of that statement and then the missing '}'
C24_Witness ==
    /\ pc = "done"
    /\ ast_error # <<>>
    /\ \E e \in AllErrors(ast_error[1]) :
          /\ e.kind = "MutilParseError"
          /\ Len(e.errors) = 2
          /\ \E l \in 0..(Len(tokens) - 1) :
                /\ KindAt(tokens, l) = "LCurlyBrace"
                /\ e.errors[2] = NoMatchingRCurlyBrace(l)
                /\ e.errors = parse_block_expression(tokens, <<>>, l).err.errors
    /\ \E k \in 1..Len(nodes) : nodes[k].kind = "Block"

---------------------------------------------------------------------------
(* Properties of errors with context. *)

IsContext(e) == e.kind = "SingleParseError" /\ e.e.t = "Context"

\* the contexts added by the helpers that parse a whole statement; those of the helpers
\* that parse an expression are added before them
StatementContexts ==
    {"this must be an expression",
     "expect an expression after '{}' for a definition",
     "expected a type expression after '{}'"}

\* an error with context is [e, ctx1, ctx2, ...]: an error that is neither empty nor a
\* context nor an error with context, then contexts only, that of the statement last
WellFormedContext(e) ==
    /\ Len(e.errors) >= 2
    /\ e.errors[1].kind \in {"SingleParseError", "MutilParseError"}
    /\ ~IsContext(e.errors[1])
    /\ \A k \in 2..Len(e.errors) : IsContext(e.errors[k])
    /\ \A k \in 2..(Len(e.errors) - 1) : e.errors[k].e.msg.text \notin StatementContexts
    /\ e.errors[Len(e.errors)].e.msg.text \in StatementContexts

\* the errors parse holds, and the errors nested in them
ErrorsBuilt == AllErrors(error) \cup UNION {AllErrors(ast_error[k]) : k \in 1..Len(ast_error)}

\* C25: every error with context the parser has built has at least two elements, the
\* first the original error, never a context and never empty, the others contexts, in
\* the order the helpers added them, from the innermost to that of the statement; and
\* add_error_context appends one context to an error with context and leaves the
\* elements it had unchanged.
C25_ErrorWithContextShape ==
    \A e \in ErrorsBuilt :
        e.kind = "ErrorWithContext" =>
            /\ WellFormedContext(e)
            /\ LET more == add_error_context(e, Msg("not a valid block")) IN
                /\ more.kind = "ErrorWithContext"
                /\ Len(more.errors) = Len(e.errors) + 1
                /\ SubSeq(more.errors, 1, Len(e.errors)) = e.errors
                /\ more.errors[Len(more.errors)] = new_single_error(Context(Msg("not a valid block")))

\* parse has recorded an error with three contexts: the missing '}' of the block of an
\* 'else if', then the contexts of the block, of the 'else if' and of the statement
C25_Witness ==
    /\ pc = "done"
    /\ \E e \in ErrorsBuilt :
          /\ e.kind = "ErrorWithContext"
          /\ Len(e.errors) = 4
          /\ e.errors[1].e.t = "UnexpectedEof"
          /\ e.errors[2].e.msg.text = "not a valid block"
          /\ e.errors[3].e.msg.text = "not a valid 'else if' expression"
          /\ e.errors[4].e.msg.text = "this must be an expression"

---------------------------------------------------------------------------
(* Properties of names. *)

Keywords ==
    [lexeme \in {<<"l", "e", "t">>, <<"v", "a", "r">>, <<"i", "f">>, <<"e", "l", "s", "e">>,
                 <<"r", "e", "t", "u", "r", "n">>} |->
        CASE lexeme = <<"l", "e", "t">> -> "KwLet"
          [] lexeme = <<"v", "a", "r">> -> "KwVar"
          [] lexeme = <<"i", "f">> -> "KwIf"
          [] lexeme = <<"e", "l", "s", "e">> -> "KwElse"
          [] lexeme = <<"r", "e", "t", "u", "r", "n">> -> "KwReturn"]

NameKinds == {"Identifier", "KwLet", "KwVar", "KwIf", "KwElse", "KwReturn"}

\* the graphemes that may follow the first grapheme of a name
NameRest(first) == IF first = "_" THEN AsciiAlnum ELSE AsciiAlnum \cup {"_"}

\* the token t of the source s is a name as the rule of identifiers has it
IsNameToken(s, t) ==
    LET lexeme == GetSpanStr(s, t.start, t.end) IN
    /\ t.start <= t.end
    /\ lexeme[1] \in AsciiAlpha \cup {"_"}
    /\ \A k \in 2..Len(lexeme) : lexeme[k] \in NameRest(lexeme[1])
    /\ GetStr(s, t.end + 1) \notin NameRest(lexeme[1])
    /\ IF lexeme \in DOMAIN Keywords
       THEN t.kind = Keywords[lexeme]
       ELSE t.kind = "Identifier" /\ t.content = lexeme

\* C26: an identifier or keyword token is made of ASCII only: its first grapheme is '_'
\* or an ASCII letter, the others are ASCII alphanumerics after '_', ASCII alphanumerics
\* or '_' after a letter, and the grapheme after the token is none of these; its kind is
\* that of the keyword its lexeme is, and Identifier with the lexeme otherwise.
C26_NamesAreAscii ==
    \A k \in 1..Len(tokens) :
        tokens[k].kind \in NameKinds => IsNameToken(src, tokens[k])

\* the part of C26 that holds: in a source without a grapheme made of '_' and a
\* combining character every name token is as the rule has it, and every '_' and ASCII
\* letter outside string literals is part of one
C26_NamesWithoutCombiningUnderscore ==
    (\A j \in 1..Len(src) : src[j] # UM) =>
        /\ \A k \in 1..Len(tokens) :
              tokens[k].kind \in NameKinds => IsNameToken(src, tokens[k])
        /\ (pc = "done" /\ \A j \in 1..Len(src) : src[j] # DQ) =>
              \A j \in 0..(Len(src) - 1) :
                  GetStr(src, j) \in AsciiAlpha \cup {"_"} =>
                      \E k \in 1..Len(tokens) :
                          /\ tokens[k].kind \in NameKinds
                          /\ tokens[k].start <= j /\ j <= tokens[k].end

---------------------------------------------------------------------------
(* Properties of spans. *)

\* the span of a token lies in the source
SpanInSource(s, t) == 0 <= t.start /\ t.start <= t.end /\ t.end < Len(s)

\* C27: every token of the stream, the FakeTokenForInvalid and Invalid tokens of the
\* errors inside string literals included, has a span with start <= inclusive end <
\* number of graphemes of the source.
C27_SpansInSource == \A k \in 1..Len(tokens) : SpanInSource(src, tokens[k])

\* the part of C27 that holds: the tokens other than those of an error of a '\u'
\* escape that is the last thing of the input
C27_SpansInSourceButUnicodeAtEnd ==
    \A k \in 1..Len(tokens) :
        \/ SpanInSource(src, tokens[k])
        \/ /\ tokens[k].kind \in {"FakeTokenForInvalid", "Invalid"}
           /\ tokens[k].end = Len(src)
           /\ GetStr(src, Len(src) - 1) \in {"u", "{"}

---------------------------------------------------------------------------
(* Properties of the token indices of errors. *)

\* the token indices an error of the grammar stores
AnchorsOf(leaf) ==
    CASE leaf.t = "UnexpectedToken" -> {leaf.ctx_start_token_idx, leaf.error_token_idx}
      [] leaf.t = "UnexpectedEof" -> {leaf.ctx_token_idx}
      [] leaf.t = "MismatchedParentheses" -> {leaf.lparen, leaf.error_token_idx}
      [] OTHER -> {}

\* the bare errors of the errors parse holds
LeavesBuilt == Leaves(error) \cup UNION {Leaves(ast_error[k]) : k \in 1..Len(ast_error)}

\* C28: every token index stored in an error of the parser, the context and error
\* anchors of UnexpectedToken, UnexpectedEof and MismatchedParentheses, is the index of
\* a token of the token vector.
C28_AnchorsAreTokens ==
    \A leaf \in LeavesBuilt : \A i \in AnchorsOf(leaf) : 0 <= i /\ i < Len(tokens)

\* the part of C28 that holds: the anchors of the errors other than the end of the input
\* where a type is expected
C28_AnchorsButTypeAtEnd ==
    \A leaf \in LeavesBuilt :
        \/ \A i \in AnchorsOf(leaf) : 0 <= i /\ i < Len(tokens)
        \/ /\ leaf.t = "UnexpectedEof"
           /\ leaf.msg.text = "expected a type expression"
           /\ leaf.ctx_token_idx <= Len(tokens)
           /\ KindAt(tokens, leaf.ctx_token_idx - 1) = "Colon"

---------------------------------------------------------------------------
(* Properties of the recovery of parse. *)

\* the elements of a sequence are pairwise different
NoDuplicates(seq) == \A j \in 1..Len(seq) : \A k \in 1..Len(seq) : seq[j] = seq[k] => j = k

\* C29: after a statement has failed, parsing goes on at an index strictly greater than
\* the index of the first significant token of that statement, the token found after
\* the blanks, the stand-alone ';' and the comments, so that no statement is parsed
\* twice and no error is recorded twice, in parse_module and in the blocks alike.
C29_RecoveryPassesStatementStart ==
    /\ [][(pc = "module" /\ parse_statement(tokens, nodes, next_token_idx).kind = "Err") =>
             next_token_idx' > find_start_of_non_empty_statement(tokens, next_token_idx)[1]]_vars
    /\ [](pc \in {"module", "done"} => NoDuplicates(ErrorList(error)))
    /\ [](pc = "done" /\ ~HasInvalid(tokens) =>
             \A l \in 0..(Len(tokens) - 1) :
                 KindAt(tokens, l) = "LCurlyBrace" =>
                     NoDuplicates(CollectedInBlock(tokens, l + 1, <<>>)))

\* the part of C29 that holds: when no stand-alone ';' stands before the statement
\* that fails, parsing goes on after its first token
C29_RecoveryWithoutLeadingSemiColon ==
    [][(/\ pc = "module"
        /\ parse_statement(tokens, nodes, next_token_idx).kind = "Err"
        /\ find_start_of_non_empty_statement(tokens, next_token_idx)
              = find_next_non_blank_token(tokens, next_token_idx))
       => next_token_idx' > find_start_of_non_empty_statement(tokens, next_token_idx)[1]]_vars

---------------------------------------------------------------------------
(* Properties of the normalized text. *)

\* C30: the text a CompilationUnit holds after from_string has no carriage return
\* immediately followed by a line feed, which is to say that none of its grapheme
\* clusters is CR LF, so that the lexer never meets that cluster.
C30_NoCRLFInSource == \A i \in 1..Len(src) : src[i] # CRLF

====
